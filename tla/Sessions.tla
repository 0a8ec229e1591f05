------------------------------ MODULE Sessions ------------------------------
(***************************************************************************)
(* The refresh sessions of one account: login, POST /auth/refresh and       *)
(* logout (auth.service.ts) over the session list of the user document      *)
(* (users/user.dao.ts), beside the requests that write the document whole.  *)
(*                                                                         *)
(* A refresh token is a model value; the server stores its hash, which      *)
(* identifies it.  A unit of the clock is long against a request, so the    *)
(* clock stands while one runs.                                            *)
(***************************************************************************)
EXTENDS Naturals, Sequences, FiniteSets

CONSTANTS
    Tokens,         \* refresh tokens that may be issued
    Legacy,         \* the token stored before sessions were a list, or NoToken
    LegacyExpiry,   \* when the stored one expires
    Refreshes,      \* POST /auth/refresh requests that may run at once
    MaxSessions,    \* MAX_REFRESH_SESSIONS
    TTL,            \* REFRESH_TOKEN_TTL_DAYS
    LastDay,        \* bound on the clock
    Allowed,        \* what may happen: see SessionKinds
    NoToken

\* "overlap": requests may run at once; "save": some request writes the user
\* document whole; "logout": with the refresh token; "logoutAll": without.
SessionKinds == {"overlap", "save", "logout", "logoutAll"}

ASSUME SessionAssumption ==
    /\ NoToken \notin Tokens
    /\ Legacy \in Tokens \cup {NoToken}
    /\ LegacyExpiry \in 0..TTL
    /\ MaxSessions \in Nat \ {0}
    /\ TTL \in Nat \ {0}
    /\ LastDay \in Nat
    /\ Allowed \subseteq SessionKinds

VARIABLES
    \* the user document
    refreshTokens,  \* the list of sessions, in the order of sign-in
    legacy,         \* refreshTokenHash and refreshTokenExpiry
    now,
    \* requests
    phase,          \* which update of touchRefreshSession comes next
    tok,            \* the token presented
    reply,
    saving,         \* the legacy fields a whole-document request has read
    \* history
    pushed,         \* the tokens in the order their sessions were added
    due,            \* until when the last use of a token keeps it alive
    loggedOut,      \* tokens whose own logout was answered
    loggedOutAll,   \* tokens issued before an answered logout of all
    restored        \* has a whole-document save brought legacy fields back?

doc      == <<refreshTokens, legacy>>
requests == <<phase, tok, reply, saving>>
history  == <<pushed, due, loggedOut, loggedOutAll, restored>>
vars     == <<doc, now, requests, history>>

-----------------------------------------------------------------------------

Entry        == [hash : Tokens, expiry : Nat]
LegacyFields == [hash : Tokens \cup {NoToken}, expiry : Nat]
NoLegacy     == [hash |-> NoToken, expiry |-> 0]
NotSaving    == [busy |-> FALSE, seen |-> NoLegacy]

TypeOK ==
    /\ refreshTokens \in Seq(Entry)
    /\ Len(refreshTokens) <= MaxSessions
    /\ legacy \in LegacyFields
    /\ now \in 0..LastDay
    /\ phase \in [Refreshes -> {"idle", "list", "legacy"}]
    /\ tok \in [Refreshes -> Tokens \cup {NoToken}]
    /\ reply \in [Refreshes -> {"none", "ok", "refused"}]
    /\ saving \in [busy : BOOLEAN, seen : LegacyFields]
    /\ pushed \in Seq(Tokens)
    /\ due \in [Tokens -> Nat]
    /\ loggedOut \subseteq Tokens
    /\ loggedOutAll \subseteq Tokens
    /\ restored \in BOOLEAN

Issued == {pushed[i] : i \in DOMAIN pushed} \cup ({Legacy} \ {NoToken})

\* No request is running.
Quiet == (\A r \in Refreshes : phase[r] = "idle") /\ ~ saving.busy
MayStart == "overlap" \in Allowed \/ Quiet

\* The session of t at position i has not expired; the stored legacy token is t.
LiveAt(t, i)  == refreshTokens[i].hash = t /\ refreshTokens[i].expiry > now
InList(t)     == \E i \in DOMAIN refreshTokens : LiveAt(t, i)
LegacyLive(t) == legacy.hash = t /\ legacy.expiry > now
Live(t)       == InList(t) \/ LegacyLive(t)

Init ==
    /\ refreshTokens = <<>>
    /\ legacy = [hash |-> Legacy, expiry |-> LegacyExpiry]
    /\ now = 0
    /\ phase = [r \in Refreshes |-> "idle"]
    /\ tok = [r \in Refreshes |-> NoToken]
    /\ reply = [r \in Refreshes |-> "none"]
    /\ saving = NotSaving
    /\ pushed = <<>>
    /\ due = [t \in Tokens |-> IF t = Legacy THEN LegacyExpiry ELSE 0]
    /\ loggedOut = {}
    /\ loggedOutAll = {}
    /\ restored = FALSE

-----------------------------------------------------------------------------
(* Slips a change to the store could make; no step of Next takes them.         *)

LastOnes_Unbounded(s) == s
LastOnes_FirstOnes(s) == IF Len(s) <= MaxSessions THEN s ELSE SubSeq(s, 1, MaxSessions)

\* The position is taken from the whole list, as with refreshTokens.0.
TouchList_FirstEntry(r) ==
    /\ phase[r] = "list"
    /\ IF Len(refreshTokens) > 0 /\ LiveAt(tok[r], 1)
       THEN /\ refreshTokens' = [refreshTokens EXCEPT ![1].expiry = now + TTL]
            /\ due' = [due EXCEPT ![tok[r]] = now + TTL]
            /\ phase' = [phase EXCEPT ![r] = "idle"]
            /\ reply' = [reply EXCEPT ![r] = "ok"]
       ELSE /\ phase' = [phase EXCEPT ![r] = "legacy"]
            /\ UNCHANGED <<refreshTokens, due, reply>>
    /\ UNCHANGED <<legacy, now, tok, saving, pushed, loggedOut, loggedOutAll,
                   restored>>

\* The session a refresh does not find is added, as an upsert would.
TouchList_Upserts(r) ==
    /\ phase[r] = "list"
    /\ IF InList(tok[r]) THEN UNCHANGED <<refreshTokens, pushed>>
       ELSE /\ refreshTokens' = <<[hash |-> tok[r], expiry |-> now + TTL]>>
            /\ pushed' = Append(pushed, tok[r])
    /\ phase' = [phase EXCEPT ![r] = "idle"]
    /\ reply' = [reply EXCEPT ![r] = "ok"]
    /\ UNCHANGED <<legacy, now, tok, saving, due, loggedOut, loggedOutAll,
                   restored>>

\* The migration copies the legacy token and leaves it.
TouchLegacy_Copies(r) ==
    /\ phase[r] = "legacy"
    /\ LegacyLive(tok[r])
    /\ refreshTokens' = <<[hash |-> tok[r], expiry |-> now + TTL]>> \o refreshTokens
    /\ phase' = [phase EXCEPT ![r] = "idle"]
    /\ reply' = [reply EXCEPT ![r] = "ok"]
    /\ UNCHANGED <<legacy, now, tok, saving, history>>

\* Only the list is emptied.
LogoutAll_LegacyKept ==
    /\ "logoutAll" \in Allowed /\ MayStart
    /\ refreshTokens' = <<>>
    /\ loggedOutAll' = loggedOutAll \cup Issued
    /\ UNCHANGED <<legacy, now, requests, pushed, due, loggedOut, restored>>

-----------------------------------------------------------------------------
(* The session list. *)

\* $slice: -max
LastOnes(s) ==
    IF Len(s) <= MaxSessions THEN s
    ELSE SubSeq(s, Len(s) - MaxSessions + 1, Len(s))

\* $push: { $each: [{ hash, expiry }], $slice: -max }
Push(t) ==
    /\ refreshTokens' = LastOnes(Append(refreshTokens,
                                        [hash |-> t, expiry |-> now + TTL]))
    /\ pushed' = Append(pushed, t)
    /\ due' = [due EXCEPT ![t] = now + TTL]

\* AuthService.login mints a token and adds its session.
Login(t) ==
    /\ t \notin Issued
    /\ MayStart
    /\ Push(t)
    /\ UNCHANGED <<legacy, now, requests, loggedOut, loggedOutAll, restored>>

\* A device presents its token, perhaps one it has been logged out of.
StartRefresh(r, t) ==
    /\ phase[r] = "idle"
    /\ t \in Issued
    /\ MayStart
    /\ phase' = [phase EXCEPT ![r] = "list"]
    /\ tok' = [tok EXCEPT ![r] = t]
    /\ reply' = [reply EXCEPT ![r] = "none"]
    /\ UNCHANGED <<doc, now, saving, history>>

Answer(r, result) ==
    /\ phase' = [phase EXCEPT ![r] = "idle"]
    /\ tok' = [tok EXCEPT ![r] = NoToken]
    /\ reply' = [reply EXCEPT ![r] = result]

\* The first updateOne: slide the expiry of a live entry of the list.
TouchList(r) ==
    /\ phase[r] = "list"
    /\ \/ /\ ~ InList(tok[r])
          /\ phase' = [phase EXCEPT ![r] = "legacy"]
          /\ UNCHANGED <<refreshTokens, due, tok, reply>>
       \/ \E i \in DOMAIN refreshTokens :
             /\ LiveAt(tok[r], i)
             /\ \A j \in 1..(i - 1) : ~ LiveAt(tok[r], j)
             /\ refreshTokens' = [refreshTokens EXCEPT ![i].expiry = now + TTL]
             /\ due' = [due EXCEPT ![tok[r]] = now + TTL]
             /\ Answer(r, "ok")
    /\ UNCHANGED <<legacy, now, saving, pushed, loggedOut, loggedOutAll,
                   restored>>

\* The second: a legacy token moves to the list.  Without a match, 401.
TouchLegacy(r) ==
    /\ phase[r] = "legacy"
    /\ \/ /\ LegacyLive(tok[r])
          /\ legacy' = NoLegacy
          /\ Push(tok[r])
          /\ Answer(r, "ok")
       \/ /\ ~ LegacyLive(tok[r])
          /\ Answer(r, "refused")
          /\ UNCHANGED <<doc, pushed, due>>
    /\ UNCHANGED <<now, saving, loggedOut, loggedOutAll, restored>>

\* $pull: the others stay, in their order.  (Not SelectSeq, of which the proof
\* library knows nothing.)
Pull(t) ==
    \E n \in 0..Len(refreshTokens) : \E kept \in [1..n -> DOMAIN refreshTokens] :
        /\ \A i, j \in 1..n : i < j => kept[i] < kept[j]
        /\ {kept[i] : i \in 1..n} =
               {i \in DOMAIN refreshTokens : refreshTokens[i].hash # t}
        /\ refreshTokens' = [i \in 1..n |-> refreshTokens[kept[i]]]

\* removeRefreshSession.
Logout(t) ==
    /\ "logout" \in Allowed
    /\ t \in Issued
    /\ MayStart
    /\ Pull(t)
    /\ loggedOut' = loggedOut \cup {t}
    /\ UNCHANGED <<legacy, now, requests, pushed, due, loggedOutAll, restored>>

\* clearRefreshSessions.
LogoutAll ==
    /\ "logoutAll" \in Allowed
    /\ MayStart
    /\ refreshTokens' = <<>>
    /\ legacy' = NoLegacy
    /\ loggedOutAll' = loggedOutAll \cup Issued
    /\ UNCHANGED <<now, requests, pushed, due, loggedOut, restored>>

-----------------------------------------------------------------------------
(* A profile edit, check-in, rating, subscription or password change: reads   *)
(* the user, and writes through UserMapper.toTemplate, which has the legacy   *)
(* fields and has not the list.                                              *)

StartSave ==
    /\ "save" \in Allowed
    /\ ~ saving.busy
    /\ ~ restored                       \* bound: at most one save restores
    /\ MayStart
    /\ saving' = [busy |-> TRUE, seen |-> legacy]
    /\ UNCHANGED <<doc, now, phase, tok, reply, history>>

Save ==
    /\ saving.busy
    /\ legacy' = saving.seen
    /\ saving' = NotSaving
    /\ restored' = (restored \/ saving.seen # legacy)
    /\ UNCHANGED <<refreshTokens, now, phase, tok, reply, pushed, due, loggedOut,
                   loggedOutAll>>

Tick ==
    /\ Quiet
    /\ now < LastDay
    /\ now' = now + 1
    /\ UNCHANGED <<doc, requests, history>>

Next ==
    \/ \E t \in Tokens : Login(t) \/ Logout(t)
    \/ \E r \in Refreshes : TouchList(r) \/ TouchLegacy(r)
    \/ \E r \in Refreshes, t \in Tokens : StartRefresh(r, t)
    \/ LogoutAll \/ StartSave \/ Save \/ Tick

Spec == Init /\ [][Next]_vars

-----------------------------------------------------------------------------
(* Properties. *)

RefusedAlive(r) == reply[r] = "none" /\ reply'[r] = "refused" /\ Live(tok[r])

\* A refresh is refused only when its token is in no live session: the one
\* condition on which a device signs out (touchRefreshSession, user.dao.ts:80-83).
\* So for every token issued to the list, whatever overlaps.
RefusedOnlyIfDead ==
    [][\A r \in Refreshes : tok[r] # Legacy => ~ RefusedAlive(r)]_vars

\* The comment of user.dao.ts:80 says it of every token.
NeverRefusedAlive == [][\A r \in Refreshes : ~ RefusedAlive(r)]_vars

\* A device that keeps using its token stays signed in, whatever the others do,
\* until as many devices as there are places have signed in after it
\* (auth.constants.ts:12-24, addRefreshSession 62-78, touchRefreshSession 89-123).
LaterSignIns(t) ==
    Cardinality({i \in DOMAIN pushed : \E j \in 1..(i - 1) : pushed[j] = t})

StaysSignedIn ==
    \A t \in Issued \ (loggedOut \cup loggedOutAll) :
        (now < due[t] /\ LaterSignIns(t) < MaxSessions) => Live(t)

\* A token has one session: no second entry takes a place of the list or
\* survives the slide of the first (touchRefreshSession 95-123).  Only a save that
\* brings the legacy token back lets it be migrated twice.
OneEntryPerToken ==
    \A i, j \in DOMAIN refreshTokens :
        (/\ refreshTokens[i].hash = refreshTokens[j].hash
         /\ refreshTokens[i].hash # Legacy \/ ~ restored) => i = j

\* Once its logout is answered, a token of the list refreshes no more, not even by
\* a refresh or a save that was under way (AuthService.logout 321-331).
LogoutEndsSession == \A t \in loggedOut \ {Legacy} : ~ Live(t)

\* The same after a logout of every device, for all tokens issued before it, a
\* restored legacy token alone excepted (clearRefreshSessions 132-146).
LogoutAllEndsSessions ==
    \A t \in loggedOutAll : (t = Legacy /\ restored) \/ ~ Live(t)

\* A logout, of one device or of all, ends its sessions for good.
LogoutsEndSessions == LogoutEndsSession /\ LogoutAllEndsSessions
=============================================================================
