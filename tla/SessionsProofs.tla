--------------------------- MODULE SessionsProofs ---------------------------
(* Theorems about Sessions for any number of tokens and of refreshes at once, *)
(* and any cap and lifetime.                                                 *)
EXTENDS Sessions, FiniteSetTheorems, TLAPS

\* The sessions of the list, without their order.
Entries == {refreshTokens[i] : i \in DOMAIN refreshTokens}
New(t)  == [hash |-> t, expiry |-> now + TTL]

\* $push with $slice keeps the cap, and adds the new session only.
LEMMA PushEffect ==
    ASSUME SessionAssumption, TypeOK, NEW t \in Tokens, Push(t)
    PROVE  /\ refreshTokens' \in Seq(Entry)
           /\ Len(refreshTokens') <= MaxSessions
           /\ pushed' \in Seq(Tokens)
           /\ pushed' = Append(pushed, t)
           /\ due' \in [Tokens -> Nat]
           /\ Entries' \subseteq Entries \cup {New(t)}
<1> DEFINE long == Append(refreshTokens, New(t))
<1>1. New(t) \in Entry /\ now + TTL \in Nat
  BY DEF New, Entry, TypeOK, SessionAssumption
<1>2. /\ long \in Seq(Entry)
      /\ Len(long) = Len(refreshTokens) + 1
      /\ \A i \in 1..Len(refreshTokens) : long[i] = refreshTokens[i]
      /\ long[Len(refreshTokens) + 1] = New(t)
      /\ Len(refreshTokens) \in Nat
      /\ DOMAIN refreshTokens = 1..Len(refreshTokens)
  BY <1>1 DEF TypeOK
<1>3. refreshTokens' = LastOnes(long) /\ MaxSessions \in Nat \ {0}
  BY DEF Push, New, SessionAssumption
<1> HIDE DEF long
<1>4. /\ refreshTokens' \in Seq(Entry)
      /\ Len(refreshTokens') <= MaxSessions
      /\ \A i \in DOMAIN refreshTokens' :
            \E j \in 1..Len(long) : refreshTokens'[i] = long[j]
  <2>1. CASE Len(long) <= MaxSessions
    BY <1>2, <1>3, <2>1 DEF LastOnes
  <2>2. CASE ~ (Len(long) <= MaxSessions)
    <3> DEFINE from == Len(long) - MaxSessions + 1
    <3>1. from \in 1..Len(long) /\ Len(long) - from + 1 = MaxSessions
      BY <1>2, <1>3, <2>2
    <3>2. refreshTokens' = SubSeq(long, from, Len(long))
      BY <1>3, <2>2 DEF LastOnes
    <3> HIDE DEF from
    <3>3. /\ refreshTokens' \in Seq(Entry)
          /\ Len(refreshTokens') = MaxSessions
          /\ \A i \in 1..MaxSessions : refreshTokens'[i] = long[from + i - 1]
      BY <1>2, <1>3, <3>1, <3>2
    <3> QED
      BY <1>2, <1>3, <3>1, <3>3
  <2> QED
    BY <2>1, <2>2
<1>5. Entries' \subseteq Entries \cup {New(t)}
  <2> SUFFICES ASSUME NEW i \in DOMAIN refreshTokens'
               PROVE  refreshTokens'[i] \in Entries \cup {New(t)}
    BY DEF Entries
  <2>1. PICK j \in 1..Len(long) : refreshTokens'[i] = long[j]
    BY <1>4
  <2>2. j \in 1..Len(refreshTokens) \/ j = Len(refreshTokens) + 1
    BY <1>2
  <2> QED
    BY <1>2, <2>1, <2>2 DEF Entries
<1>6. pushed' = Append(pushed, t) /\ pushed' \in Seq(Tokens)
  BY DEF Push, TypeOK
<1>7. due' \in [Tokens -> Nat]
  BY <1>1 DEF Push, TypeOK
<1> QED
  BY <1>4, <1>5, <1>6, <1>7

\* $pull leaves a list no longer than it was, of old sessions of other tokens.
LEMMA PullEffect ==
    ASSUME SessionAssumption, TypeOK, NEW t \in Tokens, Pull(t)
    PROVE  /\ refreshTokens' \in Seq(Entry)
           /\ Len(refreshTokens') <= MaxSessions
           /\ Entries' \subseteq {e \in Entries : e.hash # t}
<1>0. PICK n \in 0..Len(refreshTokens) :
         \E kept \in [1..n -> DOMAIN refreshTokens] :
            /\ {kept[i] : i \in 1..n} =
                  {i \in DOMAIN refreshTokens : refreshTokens[i].hash # t}
            /\ refreshTokens' = [i \in 1..n |-> refreshTokens[kept[i]]]
  BY DEF Pull
<1>1. PICK kept \in [1..n -> DOMAIN refreshTokens] :
         /\ {kept[i] : i \in 1..n} =
               {i \in DOMAIN refreshTokens : refreshTokens[i].hash # t}
         /\ refreshTokens' = [i \in 1..n |-> refreshTokens[kept[i]]]
  BY <1>0
<1>2. /\ refreshTokens \in Seq(Entry)
      /\ Len(refreshTokens) \in Nat
      /\ DOMAIN refreshTokens = 1..Len(refreshTokens)
      /\ \A j \in DOMAIN refreshTokens : refreshTokens[j] \in Entry
  BY DEF TypeOK
<1>3. \A i \in 1..n : /\ kept[i] \in DOMAIN refreshTokens
                      /\ refreshTokens[kept[i]] \in Entry
                      /\ refreshTokens[kept[i]].hash # t
  BY <1>1, <1>2
<1>4. n \in Nat /\ n <= Len(refreshTokens)
  BY <1>2
<1>5. refreshTokens' \in Seq(Entry) /\ Len(refreshTokens') = n
  BY <1>1, <1>3, <1>4
<1>6. DOMAIN refreshTokens' = 1..n
  BY <1>1
<1>7. Len(refreshTokens') <= MaxSessions
  BY <1>2, <1>4, <1>5 DEF TypeOK, SessionAssumption
<1>8. Entries' \subseteq {e \in Entries : e.hash # t}
  BY <1>1, <1>3, <1>6 DEF Entries
<1> QED
  BY <1>5, <1>7, <1>8

\* The first update of touchRefreshSession, when it matches, slides one expiry.
LEMMA SlideEffect ==
    ASSUME SessionAssumption, TypeOK,
           NEW r \in Refreshes, tok[r] \in Tokens, TouchList(r)
    PROVE  /\ refreshTokens' \in Seq(Entry)
           /\ Len(refreshTokens') <= MaxSessions
           /\ due' \in [Tokens -> Nat]
           /\ \/ ~ InList(tok[r]) /\ UNCHANGED refreshTokens
              \/ InList(tok[r]) /\ Entries' \subseteq Entries \cup {New(tok[r])}
<1>1. CASE ~ InList(tok[r])
  BY <1>1 DEF TouchList, InList, TypeOK
<1>2. CASE InList(tok[r])
  <2>1. PICK i \in DOMAIN refreshTokens :
           /\ LiveAt(tok[r], i)
           /\ refreshTokens' = [refreshTokens EXCEPT ![i].expiry = now + TTL]
           /\ due' = [due EXCEPT ![tok[r]] = now + TTL]
    BY <1>2 DEF TouchList
  <2>2. now + TTL \in Nat
    BY DEF TypeOK, SessionAssumption
  <2>3. /\ refreshTokens \in Seq(Entry)
        /\ DOMAIN refreshTokens = 1..Len(refreshTokens)
        /\ refreshTokens[i] \in Entry
    BY <2>1 DEF TypeOK
  <2>4. [refreshTokens[i] EXCEPT !.expiry = now + TTL] = New(tok[r])
    BY <2>1, <2>3 DEF LiveAt, New, Entry
  <2>5. refreshTokens' = [refreshTokens EXCEPT ![i] = New(tok[r])]
    BY <2>1, <2>4
  <2>6. New(tok[r]) \in Entry
    BY <2>2 DEF New, Entry
  <2>7. refreshTokens' \in Seq(Entry) /\ Len(refreshTokens') = Len(refreshTokens)
    BY <2>3, <2>5, <2>6
  <2>8. Entries' \subseteq Entries \cup {New(tok[r])}
    BY <2>3, <2>5 DEF Entries
  <2>9. due' \in [Tokens -> Nat]
    BY <2>1, <2>2 DEF TypeOK
  <2> QED
    BY <1>2, <2>7, <2>8, <2>9 DEF TypeOK
<1> QED
  BY <1>1, <1>2

\* TypeOK is not inductive alone: a running refresh must hold an issued token,
\* or its session would be added under no token at all.
Running   == \A r \in Refreshes : phase[r] # "idle" => tok[r] \in Issued
Listed    == \A e \in Entries : e.hash \in Issued
LegacyOwn == /\ legacy.hash \in {Legacy, NoToken}
             /\ saving.seen.hash \in {Legacy, NoToken}
TypeInv   == TypeOK /\ Running /\ Listed /\ LegacyOwn

\* Only tokens are issued, and a step issues at most the one it adds.
LEMMA IssuedTokens ==
    ASSUME SessionAssumption, TypeOK
    PROVE  /\ Issued \subseteq Tokens
           /\ \A t \in Tokens :
                 pushed' = Append(pushed, t) => Issued' = Issued \cup {t}
           /\ UNCHANGED pushed => Issued' = Issued
<1>1. /\ pushed \in Seq(Tokens)
      /\ DOMAIN pushed = 1..Len(pushed)
      /\ \A i \in DOMAIN pushed : pushed[i] \in Tokens
  BY DEF TypeOK
<1>2. Issued \subseteq Tokens
  BY <1>1 DEF Issued, SessionAssumption
<1>3. ASSUME NEW t \in Tokens, pushed' = Append(pushed, t)
      PROVE  Issued' = Issued \cup {t}
  <2>1. /\ DOMAIN pushed' = 1..(Len(pushed) + 1)
        /\ \A i \in 1..Len(pushed) : pushed'[i] = pushed[i]
        /\ pushed'[Len(pushed) + 1] = t
        /\ Len(pushed) \in Nat
    BY <1>1, <1>3
  <2>2. {pushed'[i] : i \in DOMAIN pushed'} = {pushed[i] : i \in DOMAIN pushed} \cup {t}
    <3>1. DOMAIN pushed' = DOMAIN pushed \cup {Len(pushed) + 1}
      BY <1>1, <2>1
    <3> QED
      BY <1>1, <2>1, <3>1
  <2> QED
    BY <2>2 DEF Issued
<1>4. UNCHANGED pushed => Issued' = Issued
  BY DEF Issued
<1> QED
  BY <1>2, <1>3, <1>4

\* What a step of a sign-in, a refresh or a logout does to the list, in one place.
LEMMA ListStep ==
    ASSUME SessionAssumption, TypeInv, Next
    PROVE  /\ refreshTokens' \in Seq(Entry)
           /\ Len(refreshTokens') <= MaxSessions
           /\ pushed' \in Seq(Tokens)
           /\ due' \in [Tokens -> Nat]
           /\ Issued \subseteq Issued' /\ Issued' \subseteq Tokens
           /\ \A e \in Entries' : e \in Entries \/ e.hash \in Issued'
<1> USE DEF TypeInv
<1>0. /\ Issued \subseteq Tokens
      /\ \A t \in Tokens : pushed' = Append(pushed, t) => Issued' = Issued \cup {t}
      /\ UNCHANGED pushed => Issued' = Issued
  BY IssuedTokens
<1>1. ASSUME NEW t \in Tokens, Push(t)
      PROVE  /\ refreshTokens' \in Seq(Entry)
             /\ Len(refreshTokens') <= MaxSessions
             /\ pushed' \in Seq(Tokens)
             /\ due' \in [Tokens -> Nat]
             /\ Issued' = Issued \cup {t}
             /\ \A e \in Entries' : e \in Entries \/ e.hash \in Issued'
  BY <1>0, <1>1, PushEffect DEF New
<1>2. CASE UNCHANGED <<refreshTokens, pushed, due>>
  BY <1>0, <1>2 DEF TypeOK, Entries
<1>3. ASSUME NEW t \in Tokens, Login(t) PROVE Push(t)
  BY <1>3 DEF Login
<1>4. ASSUME NEW t \in Tokens, Logout(t)
      PROVE  /\ refreshTokens' \in Seq(Entry)
             /\ Len(refreshTokens') <= MaxSessions
             /\ UNCHANGED <<pushed, due>>
             /\ \A e \in Entries' : e \in Entries
  BY <1>4, PullEffect DEF Logout
<1>5. ASSUME NEW r \in Refreshes, TouchList(r)
      PROVE  /\ refreshTokens' \in Seq(Entry)
             /\ Len(refreshTokens') <= MaxSessions
             /\ due' \in [Tokens -> Nat]
             /\ UNCHANGED pushed
             /\ \A e \in Entries' : e \in Entries \/ e.hash \in Issued
  <2>1. tok[r] \in Issued /\ tok[r] \in Tokens /\ UNCHANGED pushed
    BY <1>0, <1>5 DEF TouchList, Running
  <2>2. UNCHANGED refreshTokens => Entries' = Entries
    BY DEF Entries
  <2> QED
    BY <1>5, <2>1, <2>2, SlideEffect DEF New
<1>6. ASSUME NEW r \in Refreshes, TouchLegacy(r)
      PROVE  (Push(tok[r]) /\ tok[r] \in Tokens) \/ UNCHANGED <<refreshTokens, pushed, due>>
  BY <1>0, <1>6 DEF TouchLegacy, Running, doc
<1>7. CASE LogoutAll
  <2>1. Len(refreshTokens') <= MaxSessions /\ refreshTokens' \in Seq(Entry)
    BY <1>7 DEF LogoutAll, SessionAssumption
  <2>2. Entries' = {}
    BY <1>7 DEF LogoutAll, Entries
  <2> QED
    BY <1>0, <1>7, <2>1, <2>2 DEF LogoutAll, TypeOK
<1>8. CASE StartSave \/ Save \/ Tick \/ \E r \in Refreshes, t \in Tokens : StartRefresh(r, t)
  BY <1>2, <1>8 DEF StartSave, Save, Tick, StartRefresh, doc, history
<1> QED
  <2>1. CASE \E t \in Tokens : Login(t)
    BY <1>0, <1>1, <1>3, <2>1
  <2>2. CASE \E t \in Tokens : Logout(t)
    BY <1>0, <1>4, <2>2 DEF TypeOK
  <2>3. CASE \E r \in Refreshes : TouchList(r)
    BY <1>0, <1>5, <2>3 DEF TypeOK
  <2>4. CASE \E r \in Refreshes : TouchLegacy(r)
    BY <1>0, <1>1, <1>2, <1>6, <2>4
  <2> QED
    BY <1>7, <1>8, <2>1, <2>2, <2>3, <2>4 DEF Next

\* Every step keeps TypeInv.
LEMMA TypeStep ==
    ASSUME SessionAssumption, TypeInv, [Next]_vars
    PROVE  TypeInv'
<1>1. CASE UNCHANGED vars
  BY <1>1 DEF TypeInv, TypeOK, Running, Listed, LegacyOwn, Entries, Issued,
              vars, doc, requests, history
<1>2. CASE Next
  <2> USE <1>2 DEF TypeInv
  <2>1. /\ refreshTokens' \in Seq(Entry)
        /\ Len(refreshTokens') <= MaxSessions
        /\ pushed' \in Seq(Tokens)
        /\ due' \in [Tokens -> Nat]
        /\ Issued \subseteq Issued' /\ Issued' \subseteq Tokens
        /\ \A e \in Entries' : e \in Entries \/ e.hash \in Issued'
    BY ListStep
  <2>2. now' \in 0..LastDay
    BY DEF TypeOK, SessionAssumption, Next, Login, Logout, TouchList, TouchLegacy,
           StartRefresh, LogoutAll, StartSave, Save, Tick
  <2>3. /\ legacy' \in LegacyFields
        /\ saving' \in [busy : BOOLEAN, seen : LegacyFields]
        /\ LegacyOwn'
    <3>1. /\ NoLegacy \in LegacyFields /\ NoLegacy.hash = NoToken
          /\ NotSaving \in [busy : BOOLEAN, seen : LegacyFields]
          /\ NotSaving.seen.hash = NoToken
      BY DEF NoLegacy, NotSaving, LegacyFields
    <3>2. CASE UNCHANGED <<legacy, saving>>
      BY <3>2 DEF TypeOK, LegacyOwn
    <3>3. CASE legacy' = NoLegacy /\ UNCHANGED saving
      BY <3>1, <3>3 DEF TypeOK, LegacyOwn
    <3>4. CASE StartSave
      BY <3>4 DEF TypeOK, LegacyOwn, StartSave, doc
    <3>5. CASE Save
      BY <3>1, <3>5 DEF TypeOK, LegacyOwn, Save
    <3> QED
      BY <3>2, <3>3, <3>4, <3>5 DEF Next, Login, Logout, TouchList, TouchLegacy,
         StartRefresh, LogoutAll, Tick, doc, requests
  <2> DEFINE Requests == /\ phase \in [Refreshes -> {"idle", "list", "legacy"}]
                         /\ tok \in [Refreshes -> Tokens \cup {NoToken}]
                         /\ reply \in [Refreshes -> {"none", "ok", "refused"}]
                         /\ Running
  <2>4. Requests'
    <3>1. CASE UNCHANGED <<phase, tok, reply>>
      BY <2>1, <3>1 DEF TypeOK, Running
    <3>2. ASSUME NEW r \in Refreshes, NEW t \in Tokens, StartRefresh(r, t)
          PROVE  Requests'
      BY <2>1, <3>2 DEF TypeOK, Running, StartRefresh
    <3>3. ASSUME NEW r \in Refreshes, Answer(r, "ok") \/ Answer(r, "refused")
          PROVE  Requests'
      BY <2>1, <3>3 DEF TypeOK, Running, Answer
    <3>4. ASSUME NEW r \in Refreshes, TouchList(r)
          PROVE  Requests'
      <4>1. CASE ~ InList(tok[r])
        BY <2>1, <3>4, <4>1 DEF TypeOK, Running, TouchList, InList
      <4>2. CASE InList(tok[r])
        BY <3>3, <3>4, <4>2 DEF TouchList
      <4> QED
        BY <4>1, <4>2
    <3> QED
      BY <3>1, <3>2, <3>3, <3>4 DEF Next, Login, Logout, TouchLegacy, LogoutAll,
         StartSave, Save, Tick, requests
  <2>5. loggedOut' \subseteq Tokens /\ loggedOutAll' \subseteq Tokens
    <3>1. Issued \subseteq Tokens
      BY <2>1
    <3> QED
      BY <3>1 DEF TypeOK, Next, Login, Logout, TouchList, TouchLegacy, StartRefresh,
         LogoutAll, StartSave, Save, Tick, history
  <2>6. Listed'
    BY <2>1 DEF Listed
  <2>7. restored' \in BOOLEAN
    <3>1. (saving.seen # legacy) \in BOOLEAN
      OBVIOUS
    <3> QED
      BY <3>1 DEF TypeOK, Next, Login, Logout, TouchList, TouchLegacy, StartRefresh,
         LogoutAll, StartSave, Save, Tick, history
  <2> QED
    BY <2>1, <2>2, <2>3, <2>4, <2>5, <2>6, <2>7 DEF TypeOK
<1> QED
  BY <1>1, <1>2

\* The first state is typed.
LEMMA TypeInit ==
    ASSUME SessionAssumption, Init
    PROVE  TypeInv
<1>1. /\ refreshTokens = <<>> /\ Len(refreshTokens) <= MaxSessions
      /\ refreshTokens \in Seq(Entry) /\ Entries = {}
      /\ pushed \in Seq(Tokens)
  BY DEF Init, SessionAssumption, Entries
<1>2. legacy \in LegacyFields /\ legacy.hash \in {Legacy, NoToken}
  BY DEF Init, SessionAssumption, LegacyFields
<1>3. /\ saving \in [busy : BOOLEAN, seen : LegacyFields]
      /\ saving.seen.hash \in {Legacy, NoToken}
  BY DEF Init, NotSaving, NoLegacy, LegacyFields
<1>4. due \in [Tokens -> Nat]
  BY DEF Init, SessionAssumption
<1>5. now \in 0..LastDay
  BY DEF Init, SessionAssumption
<1> QED
  BY <1>1, <1>2, <1>3, <1>4, <1>5
     DEF TypeInv, TypeOK, Running, Listed, LegacyOwn, Init

\* The document stays well formed and its list within MAX_REFRESH_SESSIONS.
THEOREM SessionsTyped == Spec => []TypeOK
<1>1. Init => TypeInv
  BY TypeInit, SessionAssumption
<1>2. TypeInv /\ [Next]_vars => TypeInv'
  BY TypeStep, SessionAssumption
<1>3. TypeInv => TypeOK
  BY DEF TypeInv
<1> QED
  BY <1>1, <1>2, <1>3, PTL DEF Spec

-----------------------------------------------------------------------------

\* Where a session of the list comes from: it was there, or a sign-in, a refresh
\* of a live one, or the migration of the legacy token made it in this step.
LEMMA EntriesStep ==
    ASSUME SessionAssumption, TypeInv, [Next]_vars, NEW e \in Entries'
    PROVE  \/ e \in Entries
           \/ \E t \in Tokens : Login(t) /\ e = New(t)
           \/ \E r \in Refreshes :
                 /\ \/ TouchList(r) /\ InList(tok[r])
                    \/ TouchLegacy(r) /\ LegacyLive(tok[r])
                 /\ tok[r] \in Issued
                 /\ e = New(tok[r])
<1> USE DEF TypeInv
<1>0. Issued \subseteq Tokens
  BY IssuedTokens
<1>1. CASE UNCHANGED refreshTokens
  BY <1>1 DEF Entries
<1>2. ASSUME NEW t \in Tokens, Login(t)
      PROVE  e \in Entries \/ e = New(t)
  <2>1. Push(t)
    BY <1>2 DEF Login
  <2> QED
    BY <2>1, PushEffect
<1>3. ASSUME NEW t \in Tokens, Logout(t)
      PROVE  e \in Entries
  BY <1>3, PullEffect DEF Logout
<1>4. ASSUME NEW r \in Refreshes, TouchList(r)
      PROVE  /\ tok[r] \in Issued
             /\ e \in Entries \/ (InList(tok[r]) /\ e = New(tok[r]))
  <2>1. tok[r] \in Issued /\ tok[r] \in Tokens
    BY <1>0, <1>4 DEF TouchList, Running
  <2>2. UNCHANGED refreshTokens => Entries' = Entries
    BY DEF Entries
  <2> QED
    BY <1>4, <2>1, <2>2, SlideEffect
<1>5. ASSUME NEW r \in Refreshes, TouchLegacy(r)
      PROVE  /\ tok[r] \in Issued
             /\ e \in Entries \/ (LegacyLive(tok[r]) /\ e = New(tok[r]))
  <2>1. tok[r] \in Issued /\ tok[r] \in Tokens
    BY <1>0, <1>5 DEF TouchLegacy, Running
  <2>2. UNCHANGED refreshTokens => Entries' = Entries
    BY DEF Entries
  <2>3. CASE LegacyLive(tok[r])
    <3>1. Push(tok[r])
      BY <1>5, <2>3 DEF TouchLegacy
    <3> QED
      BY <2>1, <2>3, <3>1, PushEffect
  <2>4. CASE ~ LegacyLive(tok[r])
    BY <1>5, <2>1, <2>2, <2>4 DEF TouchLegacy, doc
  <2> QED
    BY <2>3, <2>4
<1>6. CASE LogoutAll
  <2>1. Entries' = {}
    BY <1>6 DEF LogoutAll, Entries
  <2> QED
    BY <2>1
<1> QED
  BY <1>1, <1>2, <1>3, <1>4, <1>5, <1>6
     DEF Next, vars, doc, StartRefresh, StartSave, Save, Tick

\* A step keeps what was issued.
LEMMA IssuedStep ==
    ASSUME SessionAssumption, TypeInv, [Next]_vars
    PROVE  Issued \subseteq Issued'
<1>1. CASE UNCHANGED vars
  BY <1>1 DEF vars, history, Issued
<1>2. CASE Next
  BY <1>2, ListStep
<1> QED
  BY <1>1, <1>2

\* Only the legacy token is migrated.
LEMMA NoMigration ==
    ASSUME SessionAssumption, TypeInv, NEW t \in Issued, t # Legacy
    PROVE  ~ LegacyLive(t)
<1>1. t \in Tokens
  BY IssuedTokens DEF TypeInv
<1> QED
  BY <1>1 DEF TypeInv, LegacyOwn, LegacyLive, SessionAssumption

\* A refresh that has missed the list would still miss it when it comes to the
\* legacy fields: nobody adds a session of its token, and the clock stands.  Not
\* so for the legacy token, which another refresh may migrate.
Missed == \A r \in Refreshes :
    (phase[r] = "legacy" /\ tok[r] # Legacy) => ~ InList(tok[r])

\* InList, said of the sessions without their order.
LEMMA InListEntries ==
    ASSUME NEW t
    PROVE  InList(t) <=> \E e \in Entries : e.hash = t /\ e.expiry > now
BY DEF InList, LiveAt, Entries

\* Every step keeps Missed.
LEMMA MissedStep ==
    ASSUME SessionAssumption, TypeInv, Missed, [Next]_vars
    PROVE  Missed'
<1> SUFFICES ASSUME NEW r \in Refreshes, phase'[r] = "legacy",
                    tok'[r] # Legacy, NEW e \in Entries', e.hash = tok'[r], e.expiry > now'
             PROVE  FALSE
  BY InListEntries DEF Missed, Entries, InList, LiveAt
<1>1. now' = now
  BY DEF Next, vars, requests, Login, Logout, TouchList, TouchLegacy, StartRefresh,
         LogoutAll, StartSave, Save, Tick, Quiet
<1>2. /\ phase[r] = "list" \/ phase[r] = "legacy"
      /\ tok'[r] = tok[r]
      /\ ~ InList(tok[r])
  BY DEF Next, vars, requests, Login, Logout, TouchList, TouchLegacy, StartRefresh,
         LogoutAll, StartSave, Save, Tick, Answer, TypeInv, TypeOK, Missed, InList
<1>3. tok[r] \in Issued
  BY <1>2 DEF TypeInv, Running
<1>4. e \notin Entries
  BY <1>1, <1>2, InListEntries
<1>5. CASE \E t \in Tokens : Login(t) /\ e = New(t)
  BY <1>2, <1>3, <1>5 DEF Login, New
<1>6. ASSUME NEW q \in Refreshes, TouchList(q), InList(tok[q]), e = New(tok[q])
      PROVE  FALSE
  BY <1>2, <1>6 DEF New
<1>7. ASSUME NEW q \in Refreshes, LegacyLive(tok[q]), tok[q] \in Issued,
             e = New(tok[q])
      PROVE  FALSE
  BY <1>2, <1>7, NoMigration DEF New
<1> QED
  BY <1>4, <1>5, <1>6, <1>7, EntriesStep

\* A refresh of a token issued to the list is refused only when the token is in no
\* live session, however many run at once and whatever else writes the document.
THEOREM RefusalsAreRight == Spec => RefusedOnlyIfDead
<1> DEFINE RightRefusal ==
       \A r \in Refreshes : tok[r] # Legacy => ~ RefusedAlive(r)
<1>1. Init => TypeInv /\ Missed
  <2>1. Init => Missed
    BY DEF Init, Missed
  <2> QED
    BY <2>1, TypeInit, SessionAssumption
<1>2. TypeInv /\ Missed /\ [Next]_vars => TypeInv' /\ Missed'
  BY TypeStep, MissedStep, SessionAssumption
<1>3. TypeInv /\ Missed /\ [Next]_vars => [RightRefusal]_vars
  <2> SUFFICES ASSUME TypeInv, Missed, Next, NEW r \in Refreshes,
                      tok[r] # Legacy, reply[r] = "none", reply'[r] = "refused"
               PROVE  ~ Live(tok[r])
    BY DEF RefusedAlive
  <2>1. TouchLegacy(r) /\ ~ LegacyLive(tok[r])
    BY DEF Next, requests, Login, Logout, TouchList, TouchLegacy, StartRefresh,
           LogoutAll, StartSave, Save, Tick, Answer, TypeInv, TypeOK
  <2>2. ~ InList(tok[r])
    BY <2>1 DEF TouchLegacy, Missed
  <2> QED
    BY <2>1, <2>2 DEF Live
<1> QED
  BY <1>1, <1>2, <1>3, PTL DEF Spec, RefusedOnlyIfDead

-----------------------------------------------------------------------------

\* A token logged out has no entry, live or expired, and was issued, so that no
\* sign-in can bring it back.
Gone == \A t \in loggedOut \ {Legacy} : t \in Issued /\ \A e \in Entries : e.hash # t

\* Every step keeps Gone.
LEMMA GoneStep ==
    ASSUME SessionAssumption, TypeInv, Gone, [Next]_vars
    PROVE  Gone'
<1> SUFFICES ASSUME NEW t \in loggedOut', t # Legacy
             PROVE  t \in Issued' /\ \A e \in Entries' : e.hash # t
  BY DEF Gone
<1>1. CASE t \in loggedOut
  <2>1. t \in Issued /\ t \in Issued' /\ \A e \in Entries : e.hash # t
    BY <1>1, IssuedStep DEF Gone
  <2>2. ASSUME NEW e \in Entries', e.hash = t
        PROVE  FALSE
    <3>1. CASE e \in Entries
      BY <2>1, <2>2, <3>1
    <3>2. CASE \E u \in Tokens : Login(u) /\ e = New(u)
      BY <2>1, <2>2, <3>2 DEF Login, New
    <3>3. ASSUME NEW r \in Refreshes, InList(tok[r]), e = New(tok[r])
          PROVE  FALSE
      BY <2>1, <2>2, <3>3, InListEntries DEF New
    <3>4. ASSUME NEW r \in Refreshes, LegacyLive(tok[r]), tok[r] \in Issued,
                 e = New(tok[r])
          PROVE  FALSE
      BY <2>2, <3>4, NoMigration DEF New
    <3> QED
      BY <3>1, <3>2, <3>3, <3>4, EntriesStep
  <2> QED
    BY <2>1, <2>2
<1>2. CASE t \notin loggedOut
  <2>1. Logout(t) /\ t \in Tokens
    BY <1>2 DEF Next, vars, history, Login, Logout, TouchList, TouchLegacy,
       StartRefresh, LogoutAll, StartSave, Save, Tick
  <2>2. \A e \in Entries' : e.hash # t
    BY <2>1, PullEffect DEF Logout, TypeInv
  <2>3. t \in Issued'
    BY <2>1, IssuedStep DEF Logout
  <2> QED
    BY <2>2, <2>3
<1> QED
  BY <1>1, <1>2

\* No refresh or save under way undoes the logout of a token of the list.
THEOREM LogoutsLast == Spec => []LogoutEndsSession
<1>1. Init => TypeInv /\ Gone
  <2>1. Init => Gone
    BY DEF Init, Gone
  <2> QED
    BY <2>1, TypeInit, SessionAssumption
<1>2. TypeInv /\ Gone /\ [Next]_vars => TypeInv' /\ Gone'
  BY TypeStep, GoneStep, SessionAssumption
<1>3. TypeInv /\ Gone => LogoutEndsSession
  <2> SUFFICES ASSUME TypeInv, Gone, NEW t \in loggedOut, t # Legacy
               PROVE  ~ Live(t)
    BY DEF LogoutEndsSession
  <2>1. t \in Issued /\ ~ InList(t)
    BY InListEntries DEF Gone
  <2>2. ~ LegacyLive(t)
    BY <2>1, NoMigration, SessionAssumption
  <2> QED
    BY <2>1, <2>2 DEF Live
<1> QED
  BY <1>1, <1>2, <1>3, PTL DEF Spec

-----------------------------------------------------------------------------

\* After a logout of every device neither the list nor the legacy fields hold a
\* token issued before it; a save that read the legacy fields before it may bring
\* the legacy token, and only that, back.
Cleared ==
    \A t \in loggedOutAll :
        /\ t \in Issued
        /\ (t # Legacy \/ ~ restored) =>
              legacy.hash # t /\ \A e \in Entries : e.hash # t

\* Every step keeps Cleared.
LEMMA ClearedStep ==
    ASSUME SessionAssumption, TypeInv, Cleared, [Next]_vars
    PROVE  Cleared'
<1>1. restored => restored'
  BY DEF Next, vars, history, Login, Logout, TouchList, TouchLegacy, StartRefresh,
         LogoutAll, StartSave, Save, Tick
<1>2. CASE LogoutAll
  <2>1. Issued' = Issued
    BY <1>2 DEF LogoutAll, Issued
  <2>2. Entries' = {} /\ legacy'.hash = NoToken
    BY <1>2 DEF LogoutAll, Entries, NoLegacy
  <2>3. loggedOutAll' \subseteq Issued' /\ Issued' \subseteq Tokens
    BY <1>2, <2>1, IssuedTokens DEF LogoutAll, Cleared, TypeInv
  <2> QED
    BY <2>2, <2>3 DEF Cleared, SessionAssumption
<1>3. CASE ~ LogoutAll
  <2>1. UNCHANGED loggedOutAll
    BY <1>3 DEF Next, vars, history, Login, Logout, TouchList, TouchLegacy,
       StartRefresh, StartSave, Save, Tick
  <2> SUFFICES ASSUME NEW t \in loggedOutAll
               PROVE  /\ t \in Issued'
                      /\ (t # Legacy \/ ~ restored') =>
                            legacy'.hash # t /\ \A e \in Entries' : e.hash # t
    BY <2>1 DEF Cleared
  <2>2. t \in Issued /\ t \in Tokens
    BY IssuedTokens DEF Cleared, TypeInv
  <2>3. ASSUME t # Legacy \/ ~ restored'
        PROVE  legacy'.hash # t /\ \A e \in Entries' : e.hash # t
    <3>1. legacy.hash # t /\ \A e \in Entries : e.hash # t
      BY <1>1, <2>3 DEF Cleared
    <3>2. legacy'.hash # t
      <4>1. CASE Save
        <5>1. legacy' = saving.seen /\ restored' = (restored \/ saving.seen # legacy)
          BY <4>1 DEF Save
        <5>2. CASE ~ restored'
          BY <3>1, <5>1, <5>2
        <5>3. CASE t # Legacy
          BY <2>2, <5>1, <5>3 DEF TypeInv, LegacyOwn, SessionAssumption
        <5> QED
          BY <2>3, <5>2, <5>3
      <4>2. CASE ~ Save
        <5>1. UNCHANGED legacy \/ legacy' = NoLegacy
          BY <1>3, <4>2 DEF Next, vars, doc, Login, Logout, TouchList, TouchLegacy,
             StartRefresh, StartSave, Tick
        <5> QED
          BY <2>2, <3>1, <5>1 DEF NoLegacy, SessionAssumption
      <4> QED
        BY <4>1, <4>2
    <3>3. ASSUME NEW e \in Entries', e.hash = t
          PROVE  FALSE
      <4>1. CASE e \in Entries
        BY <3>1, <3>3, <4>1
      <4>2. CASE \E u \in Tokens : Login(u) /\ e = New(u)
        BY <2>2, <3>3, <4>2 DEF Login, New
      <4>3. ASSUME NEW r \in Refreshes, InList(tok[r]), e = New(tok[r])
            PROVE  FALSE
        BY <3>1, <3>3, <4>3, InListEntries DEF New
      <4>4. ASSUME NEW r \in Refreshes, LegacyLive(tok[r]), e = New(tok[r])
            PROVE  FALSE
        BY <3>1, <3>3, <4>4 DEF LegacyLive, New
      <4> QED
        BY <4>1, <4>2, <4>3, <4>4, EntriesStep
    <3> QED
      BY <3>2, <3>3
  <2>4. t \in Issued'
    BY <2>2, IssuedStep
  <2> QED
    BY <2>3, <2>4
<1> QED
  BY <1>2, <1>3

\* A logout of every device lasts, the legacy token and its migration included,
\* unless a whole-document save brings that token back.
THEOREM LogoutsOfAllLast == Spec => []LogoutAllEndsSessions
<1>1. Init => TypeInv /\ Cleared
  <2>1. Init => Cleared
    BY DEF Init, Cleared
  <2> QED
    BY <2>1, TypeInit, SessionAssumption
<1>2. TypeInv /\ Cleared /\ [Next]_vars => TypeInv' /\ Cleared'
  BY TypeStep, ClearedStep, SessionAssumption
<1>3. Cleared => LogoutAllEndsSessions
  BY InListEntries DEF Cleared, LogoutAllEndsSessions, Live, LegacyLive
<1> QED
  BY <1>1, <1>2, <1>3, PTL DEF Spec

\* A logout, of one device or of all, ends its sessions for good.
THEOREM LogoutsAreFinal == Spec => []LogoutsEndSessions
<1>1. LogoutEndsSession /\ LogoutAllEndsSessions => LogoutsEndSessions
  BY DEF LogoutsEndSessions
<1> QED
  BY <1>1, LogoutsLast, LogoutsOfAllLast, PTL

-----------------------------------------------------------------------------
(* The order of the list: where each session was before a step. *)

\* $push with $slice: the new session comes last; all move down by what is cut.
Shifted(t, cut) ==
    /\ DOMAIN refreshTokens' = 1..Len(refreshTokens') /\ Len(refreshTokens') \in Nat \ {0}
    /\ Len(refreshTokens') + cut = Len(refreshTokens) + 1
    /\ \A i \in 1..(Len(refreshTokens') - 1) :
          i + cut \in DOMAIN refreshTokens /\ refreshTokens'[i] = refreshTokens[i + cut]
    /\ refreshTokens'[Len(refreshTokens')] = New(t)
    /\ \A j \in DOMAIN refreshTokens : j > cut =>
          j - cut \in DOMAIN refreshTokens' /\ refreshTokens'[j - cut] = refreshTokens[j]
    /\ cut > 0 => Len(refreshTokens') = MaxSessions

LEMMA PushPlaces ==
    ASSUME SessionAssumption, TypeOK, NEW t \in Tokens, Push(t)
    PROVE  \E cut \in Nat : Shifted(t, cut)
<1> DEFINE long == Append(refreshTokens, New(t))
<1>1. New(t) \in Entry
  BY DEF New, Entry, TypeOK, SessionAssumption
<1>2. PICK L : L = Len(refreshTokens)
  OBVIOUS
<1>3. /\ long \in Seq(Entry) /\ Len(long) = L + 1 /\ L \in Nat /\ L <= MaxSessions
      /\ \A i \in 1..L : long[i] = refreshTokens[i]
      /\ long[L + 1] = New(t) /\ DOMAIN refreshTokens = 1..L
      /\ DOMAIN long = 1..(L + 1)
  BY <1>1, <1>2 DEF TypeOK
<1>4. refreshTokens' = LastOnes(long) /\ MaxSessions \in Nat \ {0}
  BY DEF Push, New, SessionAssumption
<1> HIDE DEF long
<1>5. CASE L + 1 <= MaxSessions
  <2>1. refreshTokens' = long
    BY <1>3, <1>4, <1>5 DEF LastOnes
  <2>2. Shifted(t, 0)
    BY <1>2, <1>3, <2>1 DEF Shifted
  <2> QED
    BY <2>2
<1>6. CASE ~ (L + 1 <= MaxSessions)
  <2>1. L = MaxSessions /\ L \in Nat \ {0}
    BY <1>3, <1>4, <1>6
  <2>2. refreshTokens' = SubSeq(long, 2, L + 1)
    BY <1>3, <1>4, <1>6, <2>1 DEF LastOnes
  <2>3. /\ Len(refreshTokens') = L /\ DOMAIN refreshTokens' = 1..L
        /\ \A i \in 1..L : refreshTokens'[i] = long[i + 1]
    BY <1>3, <2>1, <2>2
  <2>4. Shifted(t, 1)
    BY <1>2, <1>3, <2>1, <2>3 DEF Shifted
  <2> QED
    BY <2>4
<1> QED
  BY <1>5, <1>6

\* What is behind a place that is kept does not grow: the places behind are kept
\* places behind it before.
LEMMA Behind ==
    ASSUME NEW n \in Nat, NEW L \in Nat, NEW kept \in [1..n -> 1..L],
           \A i, j \in 1..n : i < j => kept[i] < kept[j], NEW i \in 1..n
    PROVE  n - i <= L - kept[i]
<1> DEFINE S == (i + 1)..n
           T == (kept[i] + 1)..L
           f == [j \in S |-> kept[j]]
<1>1. /\ i \in Int /\ n \in Int /\ i <= n /\ S \subseteq 1..n
      /\ kept[i] \in Int /\ L \in Int /\ kept[i] <= L
  OBVIOUS
<1>2. f \in [S -> T]
  <2> SUFFICES ASSUME NEW j \in S PROVE kept[j] \in T
    OBVIOUS
  <2>1. j \in 1..n /\ i < j
    BY <1>1
  <2>2. kept[i] < kept[j] /\ kept[j] \in 1..L
    BY <2>1
  <2> QED
    BY <1>1, <2>2
<1>3. ASSUME NEW x \in S, NEW y \in S, x # y PROVE f[x] # f[y]
  <2>1. x \in 1..n /\ y \in 1..n /\ (x < y \/ y < x)
    BY <1>1, <1>3
  <2>2. kept[x] # kept[y]
    <3>1. kept[x] \in 1..L /\ kept[y] \in 1..L /\ (kept[x] < kept[y] \/ kept[y] < kept[x])
      BY <2>1
    <3> QED
      BY <3>1
  <2> QED
    BY <2>2
<1>4. i + 1 \in Int /\ kept[i] + 1 \in Int
  BY <1>1
<1>5. /\ IsFiniteSet(S) /\ Cardinality(S) = IF i + 1 > n THEN 0 ELSE n - (i + 1) + 1
      /\ IsFiniteSet(T) /\ Cardinality(T) = IF kept[i] + 1 > L THEN 0 ELSE L - (kept[i] + 1) + 1
  BY <1>1, <1>4, FS_Interval
<1> HIDE DEF S, T, f
<1>6. ~ (Cardinality(T) < Cardinality(S))
  BY <1>2, <1>3, <1>5, FS_PigeonHole
<1>7. Cardinality(S) = n - i /\ Cardinality(T) = L - kept[i]
  BY <1>1, <1>5
<1> QED
  BY <1>1, <1>6, <1>7

\* Every place holds a session that was at a place of its own before, and has no
\* more behind it than that had.
Moved(src) ==
    /\ DOMAIN refreshTokens' = 1..Len(refreshTokens') /\ Len(refreshTokens') \in Nat
    /\ src \in [DOMAIN refreshTokens' -> DOMAIN refreshTokens]
    /\ \A i, j \in DOMAIN refreshTokens' : i # j => src[i] # src[j]
    /\ \A i \in DOMAIN refreshTokens' :
          /\ refreshTokens'[i].hash = refreshTokens[src[i]].hash
          /\ Len(refreshTokens') - i <= Len(refreshTokens) - src[i]

\* $pull: all but the sessions of t are kept as they are.
Sifted(t, kept) ==
    /\ Moved(kept)
    /\ \A i \in DOMAIN refreshTokens' : refreshTokens'[i] = refreshTokens[kept[i]]
    /\ \A j \in DOMAIN refreshTokens : refreshTokens[j].hash # t =>
          \E i \in DOMAIN refreshTokens' : kept[i] = j

LEMMA PullPlaces ==
    ASSUME SessionAssumption, TypeOK, NEW t \in Tokens, Pull(t)
    PROVE  \E kept : Sifted(t, kept)
<1>0. PICK L : L = Len(refreshTokens)
  OBVIOUS
<1>1. L \in Nat /\ DOMAIN refreshTokens = 1..L
  BY <1>0 DEF TypeOK
<1>2. PICK n \in 0..L : \E kept \in [1..n -> 1..L] :
         /\ \A i, j \in 1..n : i < j => kept[i] < kept[j]
         /\ {kept[i] : i \in 1..n} = {i \in 1..L : refreshTokens[i].hash # t}
         /\ refreshTokens' = [i \in 1..n |-> refreshTokens[kept[i]]]
  BY <1>0, <1>1 DEF Pull
<1>3. PICK kept \in [1..n -> 1..L] :
         /\ \A i, j \in 1..n : i < j => kept[i] < kept[j]
         /\ {kept[i] : i \in 1..n} = {i \in 1..L : refreshTokens[i].hash # t}
         /\ refreshTokens' = [i \in 1..n |-> refreshTokens[kept[i]]]
  BY <1>2
<1>4. n \in Nat /\ DOMAIN refreshTokens' = 1..n /\ refreshTokens' \in Seq(Entry)
  <2>1. n \in Nat /\ DOMAIN refreshTokens' = 1..n
    BY <1>1, <1>3
  <2>2. refreshTokens' \in Seq(Entry)
    BY PullEffect
  <2> QED
    BY <2>1, <2>2
<1>5. Len(refreshTokens') = n
  BY <1>4
<1>6. \A i \in 1..n : n - i <= L - kept[i]
  BY <1>1, <1>3, <1>4, Behind
<1>7. \A i, j \in 1..n : i # j => kept[i] # kept[j]
  <2> SUFFICES ASSUME NEW i \in 1..n, NEW j \in 1..n, i # j PROVE kept[i] # kept[j]
    OBVIOUS
  <2>1. /\ kept[i] \in 1..L /\ kept[j] \in 1..L
        /\ i < j \/ j < i
    BY <1>3, <1>4
  <2>2. kept[i] < kept[j] \/ kept[j] < kept[i]
    BY <1>3, <2>1
  <2> QED
    BY <2>1, <2>2
<1>8. Moved(kept)
  BY <1>0, <1>1, <1>3, <1>4, <1>5, <1>6, <1>7 DEF Moved
<1>9. \A j \in 1..L : refreshTokens[j].hash # t => \E i \in 1..n : kept[i] = j
  BY <1>3
<1>10. Sifted(t, kept)
  BY <1>1, <1>3, <1>4, <1>8, <1>9 DEF Sifted
<1> QED
  BY <1>10

\* The first live session of t slides.
Slid(t, i) ==
    /\ i \in DOMAIN refreshTokens /\ refreshTokens[i].hash = t
    /\ DOMAIN refreshTokens' = DOMAIN refreshTokens
    /\ refreshTokens'[i] = New(t)
    /\ \A j \in DOMAIN refreshTokens : j # i => refreshTokens'[j] = refreshTokens[j]

LEMMA StillMoved ==
    ASSUME TypeOK, DOMAIN refreshTokens' = DOMAIN refreshTokens,
           \A i \in DOMAIN refreshTokens : refreshTokens'[i].hash = refreshTokens[i].hash,
           refreshTokens' \in Seq(Entry)
    PROVE  \E src : Moved(src)
<1> DEFINE src == [i \in DOMAIN refreshTokens |-> i]
<1>1. PICK L, M : L = Len(refreshTokens) /\ M = Len(refreshTokens')
  OBVIOUS
<1>2. /\ DOMAIN refreshTokens = 1..L /\ L \in Nat
      /\ DOMAIN refreshTokens' = 1..M /\ M \in Nat
  BY <1>1 DEF TypeOK
<1>3. M = L
  BY <1>2
<1>4. Moved(src)
  BY <1>1, <1>2, <1>3 DEF Moved
<1> QED
  BY <1>4

\* The five things a step can do to the list.
Comes(t, cut) ==
    /\ Shifted(t, cut) /\ pushed' = Append(pushed, t) /\ due' = [due EXCEPT ![t] = now + TTL]
    /\ \/ t \notin Issued /\ UNCHANGED legacy
       \/ t = Legacy /\ LegacyLive(t) /\ legacy' = NoLegacy
    /\ UNCHANGED <<saving, restored, loggedOut, loggedOutAll>>
Slides(t, i) ==
    /\ Slid(t, i) /\ due' = [due EXCEPT ![t] = now + TTL]
    /\ UNCHANGED <<legacy, saving, pushed, restored, loggedOut, loggedOutAll>>
Leaves(t, kept) ==
    /\ Sifted(t, kept) /\ loggedOut' = loggedOut \cup {t}
    /\ UNCHANGED <<legacy, saving, pushed, due, restored, loggedOutAll>>
Stays ==
    /\ UNCHANGED <<refreshTokens, pushed, due, loggedOut, loggedOutAll>>
    /\ \/ UNCHANGED <<legacy, saving, restored>>
       \/ UNCHANGED <<legacy, restored>> /\ saving' = [busy |-> TRUE, seen |-> legacy]
       \/ Save

LEMMA ListShapes ==
    ASSUME SessionAssumption, TypeInv, [Next]_vars
    PROVE  \/ \E t \in Tokens, cut \in Nat : Comes(t, cut)
           \/ \E t \in Tokens, i \in DOMAIN refreshTokens : Slides(t, i)
           \/ \E t \in Tokens : \E kept : Leaves(t, kept)
           \/ LogoutAll
           \/ Stays
<1>0. TypeOK /\ Issued \subseteq Tokens
  BY IssuedTokens DEF TypeInv
<1>1. ASSUME NEW t \in Tokens, Login(t) PROVE \E cut \in Nat : Comes(t, cut)
  <2>1. PICK cut \in Nat : Shifted(t, cut)
    BY <1>0, <1>1, PushPlaces DEF Login
  <2>2. Comes(t, cut)
    BY <1>1, <2>1 DEF Comes, Login, Push, requests
  <2> QED
    BY <2>2
<1>2. ASSUME NEW t \in Tokens, Logout(t) PROVE \E kept : Leaves(t, kept)
  <2>1. PICK kept : Sifted(t, kept)
    BY <1>0, <1>2, PullPlaces DEF Logout
  <2>2. Leaves(t, kept)
    BY <1>2, <2>1 DEF Leaves, Logout, requests
  <2> QED
    BY <2>2
<1>3. ASSUME NEW r \in Refreshes, TouchList(r)
      PROVE  Stays \/ \E t \in Tokens, i \in DOMAIN refreshTokens : Slides(t, i)
  <2>1. CASE ~ InList(tok[r])
    <3>1. UNCHANGED <<refreshTokens, due>>
      BY <1>3, <2>1 DEF TouchList, InList
    <3> QED
      BY <1>3, <3>1 DEF TouchList, Stays
  <2>2. CASE InList(tok[r])
    <3>1. PICK i \in DOMAIN refreshTokens :
             /\ LiveAt(tok[r], i)
             /\ refreshTokens' = [refreshTokens EXCEPT ![i].expiry = now + TTL]
             /\ due' = [due EXCEPT ![tok[r]] = now + TTL]
      BY <1>3, <2>2 DEF TouchList
    <3>2. tok[r] \in Tokens
      BY <1>0, <1>3 DEF TouchList, TypeInv, Running
    <3>3. /\ refreshTokens \in Seq(Entry) /\ refreshTokens[i] \in Entry
      BY <3>1 DEF TypeInv, TypeOK
    <3>4. [refreshTokens[i] EXCEPT !.expiry = now + TTL] = New(tok[r])
      BY <3>1, <3>3 DEF LiveAt, New, Entry
    <3>5. refreshTokens' = [refreshTokens EXCEPT ![i] = New(tok[r])]
      BY <3>1, <3>4
    <3>6. Slid(tok[r], i)
      BY <3>1, <3>3, <3>5 DEF Slid, LiveAt
    <3>7. Slides(tok[r], i)
      BY <1>3, <3>1, <3>6 DEF Slides, TouchList
    <3> QED
      BY <3>2, <3>7
  <2> QED
    BY <2>1, <2>2
<1>4. ASSUME NEW r \in Refreshes, TouchLegacy(r)
      PROVE  Stays \/ \E t \in Tokens, cut \in Nat : Comes(t, cut)
  <2>1. tok[r] \in Tokens /\ tok[r] \in Issued
    BY <1>0, <1>4 DEF TouchLegacy, TypeInv, Running
  <2>2. CASE LegacyLive(tok[r])
    <3>1. Push(tok[r]) /\ legacy' = NoLegacy
      BY <1>4, <2>2 DEF TouchLegacy
    <3>2. PICK cut \in Nat : Shifted(tok[r], cut)
      BY <1>0, <2>1, <3>1, PushPlaces
    <3>3. tok[r] = Legacy
      BY <2>1, <2>2, NoMigration
    <3>4. Comes(tok[r], cut)
      BY <1>4, <2>2, <3>1, <3>2, <3>3 DEF Comes, TouchLegacy, Push
    <3> QED
      BY <2>1, <3>4
  <2>3. CASE ~ LegacyLive(tok[r])
    BY <1>4, <2>3 DEF TouchLegacy, doc, Stays
  <2> QED
    BY <2>2, <2>3
<1>5. ASSUME \/ StartSave \/ Save \/ Tick \/ UNCHANGED vars
             \/ \E r \in Refreshes, t \in Tokens : StartRefresh(r, t)
      PROVE  Stays
  BY <1>5 DEF StartSave, Save, Tick, StartRefresh, Stays, vars, doc, requests, history
<1> QED
  BY <1>1, <1>2, <1>3, <1>4, <1>5 DEF Next

-----------------------------------------------------------------------------
(* One session per token. *)

\* While the legacy token is where it was, the list has no session of it.
Unlisted == (~ restored /\ legacy.hash = Legacy) => \A e \in Entries : e.hash # Legacy
Single   == OneEntryPerToken /\ Unlisted

LEMMA SingleMoved ==
    ASSUME Single, NEW src, Moved(src), restored => restored'
    PROVE  /\ OneEntryPerToken'
           /\ ~ restored' /\ legacy.hash = Legacy => \A e \in Entries' : e.hash # Legacy
<1>1. OneEntryPerToken'
  <2> SUFFICES ASSUME NEW i \in DOMAIN refreshTokens', NEW j \in DOMAIN refreshTokens',
                      refreshTokens'[i].hash = refreshTokens'[j].hash,
                      refreshTokens'[i].hash # Legacy \/ ~ restored', i # j
               PROVE  FALSE
    BY DEF OneEntryPerToken
  <2>1. PICK p, q \in DOMAIN refreshTokens : p = src[i] /\ q = src[j] /\ p # q
    BY DEF Moved
  <2>2. refreshTokens[p].hash = refreshTokens[q].hash /\ refreshTokens[p].hash = refreshTokens'[i].hash
    BY <2>1 DEF Moved
  <2> QED
    BY <2>1, <2>2 DEF Single, OneEntryPerToken
<1>2. ~ restored' /\ legacy.hash = Legacy => \A e \in Entries' : e.hash # Legacy
  BY DEF Moved, Single, Unlisted, Entries
<1> QED
  BY <1>1, <1>2

LEMMA SingleStep ==
    ASSUME SessionAssumption, TypeInv, Single, [Next]_vars
    PROVE  Single'
<1>0. TypeOK /\ NoLegacy.hash = NoToken /\ refreshTokens' \in Seq(Entry)
  <2>1. TypeOK /\ TypeInv'
    BY TypeStep DEF TypeInv
  <2> QED
    BY <2>1 DEF NoLegacy, TypeInv, TypeOK
<1>1. ASSUME NEW t \in Tokens, NEW cut \in Nat, Comes(t, cut) PROVE Single'
  <2>1. /\ Shifted(t, cut) /\ restored' = restored
        /\ \/ t \notin Issued /\ legacy' = legacy
           \/ t = Legacy /\ legacy.hash = t /\ legacy' = NoLegacy
    BY <1>1 DEF Comes, LegacyLive
  <2>2. ASSUME NEW e \in Entries, e.hash = t PROVE t = Legacy /\ restored
    <3>1. t \in Issued
      BY <2>2 DEF TypeInv, Listed
    <3> QED
      BY <2>1, <2>2, <3>1 DEF Single, Unlisted
  <2>3. PICK n : n = Len(refreshTokens')
    OBVIOUS
  <2>4. /\ DOMAIN refreshTokens' = 1..n /\ n \in Nat \ {0}
        /\ \A i \in 1..(n - 1) :
              i + cut \in DOMAIN refreshTokens /\ refreshTokens'[i] = refreshTokens[i + cut]
        /\ refreshTokens'[n].hash = t
    <3>1. /\ n \in Nat \ {0} /\ refreshTokens'[n] = New(t)
          /\ \A i \in 1..(n - 1) :
                i + cut \in DOMAIN refreshTokens /\ refreshTokens'[i] = refreshTokens[i + cut]
      BY <2>1, <2>3 DEF Shifted
    <3>2. DOMAIN refreshTokens' = 1..n
      BY <1>0, <2>3
    <3> QED
      BY <3>1, <3>2 DEF New
  <2>5. ASSUME NEW i \in DOMAIN refreshTokens', NEW j \in DOMAIN refreshTokens',
               refreshTokens'[i].hash = refreshTokens'[j].hash,
               refreshTokens'[i].hash # Legacy \/ ~ restored', i < j
        PROVE  FALSE
    <3>1. i \in 1..(n - 1) /\ (j \in 1..(n - 1) \/ j = n)
      BY <2>4, <2>5
    <3>2. CASE j = n
      <4>1. i + cut \in DOMAIN refreshTokens /\ refreshTokens[i + cut].hash = t
        BY <2>4, <2>5, <3>1, <3>2
      <4>2. refreshTokens[i + cut] \in Entries
        BY <4>1 DEF Entries
      <4> QED
        BY <2>1, <2>2, <2>4, <2>5, <3>2, <4>1, <4>2
    <3>3. CASE j \in 1..(n - 1)
      <4>1. PICK p, q \in DOMAIN refreshTokens : p = i + cut /\ q = j + cut
        BY <2>4, <3>1, <3>3
      <4>2. p # q /\ refreshTokens[p] = refreshTokens'[i] /\ refreshTokens[q] = refreshTokens'[j]
        BY <2>4, <2>5, <3>1, <3>3, <4>1
      <4> QED
        BY <2>1, <2>5, <4>1, <4>2 DEF Single, OneEntryPerToken
    <3> QED
      BY <3>1, <3>2, <3>3
  <2>6. OneEntryPerToken'
    <3> SUFFICES ASSUME NEW i \in DOMAIN refreshTokens', NEW j \in DOMAIN refreshTokens',
                        refreshTokens'[i].hash = refreshTokens'[j].hash,
                        refreshTokens'[i].hash # Legacy \/ ~ restored', i # j
                 PROVE  FALSE
      BY DEF OneEntryPerToken
    <3>1. i < j \/ j < i
      BY <2>4
    <3> QED
      BY <2>5, <3>1
  <2>7. Unlisted'
    <3> SUFFICES ASSUME ~ restored, legacy'.hash = Legacy, NEW e \in Entries', e.hash = Legacy
                 PROVE  FALSE
      BY <2>1 DEF Unlisted, Entries
    <3>1. e \in Entries \/ e.hash = t
      <4>1. PICK i \in DOMAIN refreshTokens' : e = refreshTokens'[i]
        BY DEF Entries
      <4>2. i \in 1..(n - 1) \/ i = n
        BY <2>4
      <4> QED
        BY <2>4, <4>1, <4>2 DEF Entries
    <3>2. e.hash \in Tokens
      <4>1. PICK i \in DOMAIN refreshTokens' : e = refreshTokens'[i]
        BY DEF Entries
      <4>2. refreshTokens'[i] \in Entry
        BY <1>0, <4>1
      <4> QED
        BY <4>1, <4>2 DEF Entry
    <3>3. t \notin Issued /\ legacy.hash = Legacy /\ Legacy \in Tokens
      BY <2>1, <1>0, <3>2 DEF SessionAssumption
    <3>4. t # Legacy
      BY <3>3 DEF Issued, SessionAssumption
    <3> QED
      BY <3>1, <3>3, <3>4 DEF Single, Unlisted
  <2> QED
    BY <2>6, <2>7 DEF Single
<1>2. ASSUME NEW t \in Tokens, NEW i \in DOMAIN refreshTokens, Slides(t, i) PROVE Single'
  <2>1. UNCHANGED <<legacy, restored>> /\ Slid(t, i)
    BY <1>2 DEF Slides
  <2>2. \E src : Moved(src)
    BY <1>0, <2>1, StillMoved DEF Slid, New
  <2> QED
    BY <2>1, <2>2, SingleMoved DEF Single, Unlisted, Entries
<1>3. ASSUME NEW t \in Tokens, NEW kept, Leaves(t, kept) PROVE Single'
  BY <1>3, SingleMoved DEF Leaves, Sifted, Single, Unlisted, Entries
<1>4. CASE LogoutAll
  BY <1>4 DEF LogoutAll, Single, OneEntryPerToken, Unlisted, Entries
<1>5. CASE Stays
  <2>0. refreshTokens' = refreshTokens
    BY <1>5 DEF Stays
  <2>1. \E src : Moved(src)
    BY <1>0, <2>0, StillMoved
  <2>2. (restored => restored') /\ (~ restored' => legacy' = legacy)
    <3>1. restored \in BOOLEAN
      BY <1>0 DEF TypeOK
    <3>2. CASE Save
      <4>1. legacy' = saving.seen /\ restored' = (restored \/ saving.seen # legacy)
        BY <3>2 DEF Save
      <4>2. CASE saving.seen = legacy
        BY <3>1, <4>1, <4>2
      <4>3. CASE saving.seen # legacy
        BY <4>1, <4>3
      <4> QED
        BY <4>2, <4>3
    <3>3. CASE UNCHANGED <<legacy, restored>>
      BY <3>3
    <3> QED
      BY <1>5, <3>2, <3>3 DEF Stays
  <2> QED
    BY <2>1, <2>2, SingleMoved DEF Single, Unlisted, Entries
<1> QED
  BY <1>1, <1>2, <1>3, <1>4, <1>5, ListShapes

\* A token has one session in the list, however many refreshes of it overlap; only
\* a save that brings the legacy token back lets it have two.
THEOREM OneSessionEach == Spec => []OneEntryPerToken
<1>1. Init => TypeInv /\ Single
  <2>1. Init => Single
    BY DEF Init, Single, OneEntryPerToken, Unlisted, Entries
  <2> QED
    BY <2>1, TypeInit, SessionAssumption
<1>2. TypeInv /\ Single /\ [Next]_vars => TypeInv' /\ Single'
  BY TypeStep, SingleStep, SessionAssumption
<1>3. Single => OneEntryPerToken
  BY DEF Single
<1> QED
  BY <1>1, <1>2, <1>3, PTL DEF Spec
-----------------------------------------------------------------------------
(* Staying signed in. *)

\* The tokens whose session was added to the list, at sign-in or by migration.
Added == {pushed[k] : k \in DOMAIN pushed}

\* A session has no more behind it in the list than were added after its own.
Deep ==
    \A i \in DOMAIN refreshTokens : \E k \in DOMAIN pushed :
        /\ pushed[k] = refreshTokens[i].hash
        /\ Len(refreshTokens) - i <= Len(pushed) - k

\* The legacy token stays as it was until it is migrated or logged out with the
\* rest, and a request that writes the document whole has read it so.
Unmigrated ==
    (Legacy # NoToken /\ Legacy \notin Added \cup loggedOutAll) =>
        /\ legacy = [hash |-> Legacy, expiry |-> due[Legacy]]
        /\ saving.busy => saving.seen = legacy

\* What was added and not logged out is in the list, alive as long as its last use
\* made it, or enough were added after it to push it out.
Fresh(t)     == \E i \in DOMAIN refreshTokens :
                    refreshTokens[i] = [hash |-> t, expiry |-> due[t]]
PushedOut(t) == \E k \in DOMAIN pushed :
                    pushed[k] = t /\ k + MaxSessions <= Len(pushed)
Kept == \A t \in Added \ (loggedOut \cup loggedOutAll) : Fresh(t) \/ PushedOut(t)

Staying == Deep /\ Unmigrated /\ Kept

LEMMA DeepMoved ==
    ASSUME TypeOK, Deep, NEW src, Moved(src), pushed' = pushed
    PROVE  Deep'
<1> SUFFICES ASSUME NEW i \in DOMAIN refreshTokens'
             PROVE  \E k \in DOMAIN pushed :
                       /\ pushed[k] = refreshTokens'[i].hash
                       /\ Len(refreshTokens') - i <= Len(pushed) - k
  BY DEF Deep
<1>1. /\ src[i] \in DOMAIN refreshTokens
      /\ refreshTokens'[i].hash = refreshTokens[src[i]].hash
      /\ Len(refreshTokens') - i <= Len(refreshTokens) - src[i]
  BY DEF Moved
<1>2. PICK k \in DOMAIN pushed :
         /\ pushed[k] = refreshTokens[src[i]].hash
         /\ Len(refreshTokens) - src[i] <= Len(pushed) - k
  BY <1>1 DEF Deep
<1>3. PICK a, b, c :
         /\ a = Len(refreshTokens') - i
         /\ b = Len(refreshTokens) - src[i]
         /\ c = Len(pushed) - k
  OBVIOUS
<1>4. a \in Int /\ b \in Int /\ c \in Int
  <2>1. Len(refreshTokens') \in Nat /\ i \in 1..Len(refreshTokens')
    BY DEF Moved
  <2>2. Len(refreshTokens) \in Nat /\ src[i] \in 1..Len(refreshTokens)
    BY <1>1 DEF TypeOK
  <2>3. Len(pushed) \in Nat /\ k \in 1..Len(pushed)
    BY DEF TypeOK
  <2> QED
    BY <1>3, <2>1, <2>2, <2>3
<1>5. a <= c
  BY <1>1, <1>2, <1>3, <1>4
<1> QED
  BY <1>1, <1>2, <1>3, <1>5

\* A session comes: those behind it move up with their sign-ins, and the one cut
\* off has as many sign-ins after it as there are places.
LEMMA StayingComes ==
    ASSUME SessionAssumption, TypeInv, Staying,
           NEW t \in Tokens, NEW cut \in Nat, Comes(t, cut)
    PROVE  Staying'
<1>0. TypeOK /\ pushed' = Append(pushed, t) /\ Shifted(t, cut)
  BY DEF TypeInv, Comes
<1>1. PICK n, L, P : n = Len(refreshTokens') /\ L = Len(refreshTokens) /\ P = Len(pushed)
  OBVIOUS
<1>2. /\ n \in Nat \ {0} /\ DOMAIN refreshTokens' = 1..n /\ n + cut = L + 1
      /\ \A i \in 1..(n - 1) :
            i + cut \in DOMAIN refreshTokens /\ refreshTokens'[i] = refreshTokens[i + cut]
      /\ refreshTokens'[n] = New(t)
      /\ \A j \in DOMAIN refreshTokens : j > cut =>
            j - cut \in DOMAIN refreshTokens' /\ refreshTokens'[j - cut] = refreshTokens[j]
      /\ cut > 0 => n = MaxSessions
  BY <1>0, <1>1 DEF Shifted
<1>3. L \in Nat /\ DOMAIN refreshTokens = 1..L
  BY <1>0, <1>1 DEF TypeOK
<1>4. /\ P \in Nat /\ DOMAIN pushed = 1..P /\ Len(pushed') = P + 1
      /\ DOMAIN pushed' = 1..(P + 1) /\ pushed'[P + 1] = t
      /\ \A k \in 1..P : pushed'[k] = pushed[k]
  BY <1>0, <1>1 DEF TypeOK
<1>5. Added' = Added \cup {t}
  <2>1. \A k \in 1..(P + 1) : k \in 1..P \/ k = P + 1
    BY <1>4
  <2>2. \A k \in 1..P : k \in 1..(P + 1)
    BY <1>4
  <2>3. P + 1 \in 1..(P + 1)
    BY <1>4
  <2> QED
    BY <1>4, <2>1, <2>2, <2>3 DEF Added
<1>6. ASSUME NEW i \in 1..L
      PROVE  \E k \in 1..P : pushed[k] = refreshTokens[i].hash /\ L - i <= P - k
  BY <1>1, <1>3, <1>4 DEF Staying, Deep
<1>7. Deep'
  <2> SUFFICES ASSUME NEW i \in 1..n
               PROVE  \E k \in 1..(P + 1) :
                         pushed'[k] = refreshTokens'[i].hash /\ n - i <= (P + 1) - k
    BY <1>1, <1>2, <1>4 DEF Deep
  <2>1. CASE i = n
    <3>1. P + 1 \in 1..(P + 1) /\ n - i <= (P + 1) - (P + 1)
      BY <1>2, <1>4, <2>1
    <3>2. refreshTokens'[i].hash = t
      BY <1>2, <2>1 DEF New
    <3> QED
      BY <1>4, <3>1, <3>2
  <2>2. CASE i # n
    <3>1. i \in 1..(n - 1)
      BY <1>2, <2>2
    <3>2. i + cut \in 1..L /\ refreshTokens'[i] = refreshTokens[i + cut]
      BY <1>2, <1>3, <3>1
    <3>3. PICK k \in 1..P :
             pushed[k] = refreshTokens[i + cut].hash /\ L - (i + cut) <= P - k
      BY <1>6, <3>2
    <3>4. k \in 1..(P + 1) /\ n - i <= (P + 1) - k
      BY <1>2, <1>3, <1>4, <3>3
    <3> QED
      BY <1>4, <3>2, <3>3, <3>4
  <2> QED
    BY <2>1, <2>2
<1>8. Unmigrated'
  <2> SUFFICES ASSUME Legacy # NoToken, Legacy \notin Added', Legacy \notin loggedOutAll'
               PROVE  /\ legacy' = [hash |-> Legacy, expiry |-> due'[Legacy]]
                      /\ saving'.busy => saving'.seen = legacy'
    BY DEF Unmigrated
  <2>1. t # Legacy /\ Legacy \notin Added /\ Legacy \notin loggedOutAll
    BY <1>5 DEF Comes
  <2>2. due'[Legacy] = due[Legacy]
    BY <1>0, <2>1 DEF Comes, SessionAssumption, TypeOK
  <2>3. legacy' = legacy /\ saving' = saving
    BY <2>1 DEF Comes
  <2> QED
    BY <2>1, <2>2, <2>3 DEF Staying, Unmigrated
<1>9. ASSUME NEW u \in Added' \ (loggedOut \cup loggedOutAll) PROVE Fresh(u)' \/ PushedOut(u)'
  <2>0. due' = [due EXCEPT ![t] = now + TTL] /\ due \in [Tokens -> Nat]
    BY <1>0 DEF Comes, TypeOK
  <2>1. CASE u = t
    <3>1. refreshTokens'[n] = [hash |-> u, expiry |-> due'[u]] /\ n \in DOMAIN refreshTokens'
      BY <1>2, <2>0, <2>1 DEF New
    <3> QED
      BY <3>1 DEF Fresh
  <2>2. CASE u # t /\ Fresh(u)
    <3>1. PICK j \in 1..L : refreshTokens[j] = [hash |-> u, expiry |-> due[u]]
      BY <1>3, <2>2 DEF Fresh
    <3>2. CASE j > cut
      <4>1. /\ j - cut \in DOMAIN refreshTokens'
            /\ refreshTokens'[j - cut] = [hash |-> u, expiry |-> due[u]]
        BY <1>2, <1>3, <3>1, <3>2
      <4>2. due'[u] = due[u]
        BY <1>0, <1>5, <2>0, <2>2 DEF Added, TypeOK
      <4> QED
        BY <4>1, <4>2 DEF Fresh
    <3>3. CASE ~ (j > cut)
      <4>1. n = MaxSessions
        BY <1>2, <3>1, <3>3
      <4>2. PICK k \in 1..P : pushed[k] = u /\ L - j <= P - k
        BY <1>6, <3>1
      <4>3. k + n <= P + 1
        BY <1>2, <1>3, <1>4, <3>1, <3>3, <4>2
      <4>4. k \in 1..(P + 1) /\ pushed'[k] = u
        BY <1>4, <4>2
      <4> QED
        BY <1>4, <4>1, <4>3, <4>4 DEF PushedOut
    <3> QED
      BY <3>2, <3>3
  <2>3. CASE PushedOut(u)
    <3>1. PICK k \in 1..P : pushed[k] = u /\ k + MaxSessions <= P
      BY <1>1, <1>4, <2>3 DEF PushedOut
    <3>2. k \in 1..(P + 1) /\ k + MaxSessions <= P + 1
      BY <1>4, <3>1 DEF SessionAssumption
    <3> QED
      BY <1>4, <3>1, <3>2 DEF PushedOut
  <2> QED
    BY <1>5, <2>1, <2>2, <2>3 DEF Staying, Kept
<1>10. Kept'
  BY <1>9 DEF Kept, Comes
<1> QED
  BY <1>7, <1>8, <1>10 DEF Staying

\* A refresh gives its session the lifetime due says, and moves none.
LEMMA StayingSlides ==
    ASSUME SessionAssumption, TypeInv, Staying, refreshTokens' \in Seq(Entry),
           NEW t \in Tokens, NEW i \in DOMAIN refreshTokens, Slides(t, i)
    PROVE  Staying'
<1>0. /\ TypeOK /\ Slid(t, i)
      /\ due' = [due EXCEPT ![t] = now + TTL] /\ due \in [Tokens -> Nat]
      /\ UNCHANGED <<legacy, saving, pushed, loggedOut, loggedOutAll>>
  BY DEF TypeInv, TypeOK, Slides
<1>1. Deep'
  <2>1. \E src : Moved(src)
    BY <1>0, StillMoved DEF Slid, New
  <2> QED
    BY <1>0, <2>1, DeepMoved DEF Staying
<1>2. t \in Added /\ Added' = Added
  BY <1>0 DEF Staying, Deep, Slid, Added
<1>3. \A u \in Tokens : u # t => due'[u] = due[u]
  BY <1>0
<1>4. Unmigrated'
  BY <1>0, <1>2, <1>3 DEF Staying, Unmigrated, SessionAssumption
<1>5. ASSUME NEW u \in Added \ (loggedOut \cup loggedOutAll) PROVE Fresh(u)' \/ PushedOut(u)'
  <2>1. CASE u = t
    <3>1. refreshTokens'[i] = [hash |-> u, expiry |-> due'[u]] /\ i \in DOMAIN refreshTokens'
      BY <1>0, <2>1 DEF Slid, New
    <3> QED
      BY <3>1 DEF Fresh
  <2>2. CASE u # t /\ Fresh(u)
    <3>1. PICK j \in DOMAIN refreshTokens : refreshTokens[j] = [hash |-> u, expiry |-> due[u]]
      BY <2>2 DEF Fresh
    <3>2. j # i
      BY <1>0, <2>2, <3>1 DEF Slid
    <3>3. due'[u] = due[u]
      BY <1>0, <1>3, <2>2 DEF Added, TypeOK
    <3> QED
      BY <1>0, <3>1, <3>2, <3>3 DEF Slid, Fresh
  <2>3. CASE PushedOut(u)
    BY <1>0, <2>3 DEF PushedOut
  <2> QED
    BY <2>1, <2>2, <2>3 DEF Staying, Kept
<1>6. Kept'
  BY <1>0, <1>2, <1>5 DEF Kept
<1> QED
  BY <1>1, <1>4, <1>6 DEF Staying

\* A logout takes away the sessions of its token only.
LEMMA StayingLeaves ==
    ASSUME TypeInv, Staying, NEW t \in Tokens, NEW kept, Leaves(t, kept)
    PROVE  Staying'
<1>0. /\ TypeOK /\ Sifted(t, kept) /\ Moved(kept) /\ loggedOut' = loggedOut \cup {t}
      /\ UNCHANGED <<legacy, saving, pushed, due, loggedOutAll>> /\ Added' = Added
  BY DEF TypeInv, Leaves, Sifted, Added
<1>1. Deep'
  BY <1>0, DeepMoved DEF Staying
<1>2. Unmigrated'
  BY <1>0 DEF Staying, Unmigrated
<1>3. ASSUME NEW u \in Added \ (loggedOut' \cup loggedOutAll) PROVE Fresh(u)' \/ PushedOut(u)'
  <2>1. CASE Fresh(u)
    <3>1. PICK j \in DOMAIN refreshTokens : refreshTokens[j] = [hash |-> u, expiry |-> due[u]]
      BY <2>1 DEF Fresh
    <3>2. refreshTokens[j].hash # t
      BY <1>0, <3>1
    <3>3. PICK i \in DOMAIN refreshTokens' : kept[i] = j
      BY <1>0, <3>2 DEF Sifted
    <3>4. refreshTokens'[i] = refreshTokens[j]
      BY <1>0, <3>3 DEF Sifted
    <3> QED
      BY <1>0, <3>1, <3>4 DEF Fresh
  <2>2. CASE PushedOut(u)
    BY <1>0, <2>2 DEF PushedOut
  <2> QED
    BY <1>0, <2>1, <2>2 DEF Staying, Kept
<1>4. Kept'
  BY <1>0, <1>3 DEF Kept
<1> QED
  BY <1>1, <1>2, <1>4 DEF Staying

\* After a logout of all there is nobody left to keep signed in.
LEMMA StayingCleared ==
    ASSUME LogoutAll PROVE Staying'
<1>1. Added' \subseteq loggedOutAll' /\ (Legacy # NoToken => Legacy \in loggedOutAll')
  BY DEF LogoutAll, Added, Issued
<1>2. DOMAIN refreshTokens' = {}
  BY DEF LogoutAll
<1> QED
  BY <1>1, <1>2 DEF Staying, Deep, Unmigrated, Kept

LEMMA StayingStays ==
    ASSUME Staying, Stays PROVE Staying'
<1>0. UNCHANGED <<refreshTokens, pushed, due, loggedOut, loggedOutAll>>
  BY DEF Stays
<1>1. Deep'
  BY <1>0 DEF Staying, Deep
<1>2. Unmigrated'
  <2> SUFFICES ASSUME Legacy # NoToken, Legacy \notin Added', Legacy \notin loggedOutAll'
               PROVE  /\ legacy' = [hash |-> Legacy, expiry |-> due'[Legacy]]
                      /\ saving'.busy => saving'.seen = legacy'
    BY DEF Unmigrated
  <2>1. /\ legacy = [hash |-> Legacy, expiry |-> due[Legacy]]
        /\ saving.busy => saving.seen = legacy
    BY <1>0 DEF Staying, Unmigrated, Added
  <2>2. CASE Save
    BY <1>0, <2>1, <2>2 DEF Save, NotSaving
  <2>3. CASE UNCHANGED <<legacy, saving>>
    BY <1>0, <2>1, <2>3
  <2>4. CASE UNCHANGED legacy /\ saving' = [busy |-> TRUE, seen |-> legacy]
    BY <1>0, <2>1, <2>4
  <2> QED
    BY <2>2, <2>3, <2>4 DEF Stays
<1>3. Kept'
  BY <1>0 DEF Staying, Kept, Fresh, PushedOut, Added
<1> QED
  BY <1>1, <1>2, <1>3 DEF Staying

LEMMA StayingStep ==
    ASSUME SessionAssumption, TypeInv, Staying, [Next]_vars
    PROVE  Staying'
<1>1. refreshTokens' \in Seq(Entry)
  <2>1. TypeInv'
    BY TypeStep
  <2> QED
    BY <2>1 DEF TypeInv, TypeOK
<1> QED
  BY <1>1, ListShapes, StayingComes, StayingSlides, StayingLeaves, StayingCleared,
     StayingStays

\* Pushed out, a token has had as many sign-ins after its own as there are places.
LEMMA OutNumbered ==
    ASSUME SessionAssumption, TypeOK, NEW t, PushedOut(t)
    PROVE  ~ (LaterSignIns(t) < MaxSessions)
<1>0. PICK P : P = Len(pushed)
  OBVIOUS
<1>1. P \in Nat /\ DOMAIN pushed = 1..P /\ MaxSessions \in Nat
  BY <1>0 DEF TypeOK, SessionAssumption
<1>2. PICK k \in 1..P : pushed[k] = t /\ k + MaxSessions <= P
  BY <1>0, <1>1 DEF PushedOut
<1> DEFINE later == {i \in 1..P : \E j \in 1..(i - 1) : pushed[j] = t}
<1>3. (k + 1)..P \subseteq later
  <2> SUFFICES ASSUME NEW i \in (k + 1)..P PROVE i \in later
    OBVIOUS
  <2>1. i \in 1..P /\ k \in 1..(i - 1)
    BY <1>1
  <2> QED
    BY <1>2, <2>1
<1>4. later \subseteq 1..P
  OBVIOUS
<1>5. LaterSignIns(t) = Cardinality(later)
  BY <1>1 DEF LaterSignIns
<1> HIDE DEF later
<1>6. k + 1 \in Int /\ P \in Int /\ 1 \in Int
  BY <1>1
<1>7. /\ Cardinality((k + 1)..P) = IF k + 1 > P THEN 0 ELSE P - (k + 1) + 1
      /\ IsFiniteSet(1..P)
  BY <1>6, FS_Interval
<1>8. IsFiniteSet(later)
  BY <1>4, <1>7, FS_Subset
<1>9. Cardinality((k + 1)..P) <= Cardinality(later) /\ Cardinality(later) \in Nat
  BY <1>3, <1>8, FS_Subset, FS_CardinalityType
<1>10. Cardinality((k + 1)..P) = P - k
  BY <1>1, <1>2, <1>7
<1> QED
  BY <1>1, <1>2, <1>5, <1>9, <1>10

\* A device that keeps using its token stays signed in, whatever the others do,
\* until as many devices as there are places have signed in after it.
THEOREM DevicesStaySignedIn == Spec => []StaysSignedIn
<1>1. Init => TypeInv /\ Staying
  <2>1. ASSUME Init PROVE Staying
    <3>1. DOMAIN refreshTokens = {} /\ DOMAIN pushed = {} /\ ~ saving.busy
      BY <2>1 DEF Init, NotSaving
    <3>2. Legacy # NoToken => legacy = [hash |-> Legacy, expiry |-> due[Legacy]]
      BY <2>1, SessionAssumption DEF Init, SessionAssumption
    <3> QED
      BY <3>1, <3>2 DEF Staying, Deep, Unmigrated, Kept, Added
  <2> QED
    BY <2>1, TypeInit, SessionAssumption
<1>2. TypeInv /\ Staying /\ [Next]_vars => TypeInv' /\ Staying'
  BY TypeStep, StayingStep, SessionAssumption
<1>3. ASSUME TypeInv, Staying PROVE StaysSignedIn
  <2> SUFFICES ASSUME NEW t \in Issued \ (loggedOut \cup loggedOutAll),
                      now < due[t], LaterSignIns(t) < MaxSessions
               PROVE  Live(t)
    BY DEF StaysSignedIn
  <2>0. TypeOK
    BY <1>3 DEF TypeInv
  <2>1. CASE t \in Added
    <3>1. Fresh(t)
      BY <1>3, <2>0, <2>1, OutNumbered, SessionAssumption DEF Staying, Kept
    <3>2. PICK i \in DOMAIN refreshTokens :
             refreshTokens[i] = [hash |-> t, expiry |-> due[t]]
      BY <3>1 DEF Fresh
    <3>3. t \in Tokens
      BY <2>0, IssuedTokens, SessionAssumption
    <3>4. due[t] > now
      BY <2>0, <3>3, SessionAssumption DEF TypeOK, SessionAssumption
    <3> QED
      BY <3>2, <3>4 DEF Live, InList, LiveAt
  <2>2. CASE t \notin Added
    <3>1. t = Legacy /\ Legacy # NoToken
      BY <2>2 DEF Issued, Added
    <3>2. legacy = [hash |-> t, expiry |-> due[t]]
      BY <1>3, <2>2, <3>1 DEF Staying, Unmigrated
    <3>3. due[t] > now
      BY <2>0, <3>1, SessionAssumption DEF TypeOK, SessionAssumption
    <3> QED
      BY <3>2, <3>3 DEF Live, LegacyLive
  <2> QED
    BY <2>1, <2>2
<1> QED
  BY <1>1, <1>2, <1>3, PTL DEF Spec
=============================================================================
