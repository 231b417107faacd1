------------------------------ MODULE BffSession ------------------------------
(***************************************************************************)
(* The browser's session cookies and the Next.js server (the BFF) that     *)
(* keeps them: app/api/auth/*, app/api/proxy.ts.  The browser sends its    *)
(* cookies with every request; the BFF calls the backend, redeems the      *)
(* refresh token when the access token is no longer accepted, and its      *)
(* answer sets the cookies, clears them or leaves them alone.              *)
(*                                                                         *)
(* The backend keeps the families of TokenFamilies, which RefreshSessions  *)
(* implements; family adds the family each token belongs to.  To close a   *)
(* family takes it two steps, the snapshot and the write, and a refresh    *)
(* between them escapes: what is left of RefreshSessions' row-by-row       *)
(* UPDATE.  A slot of Slots is one request of the browser and the handler  *)
(* that serves it; everything between two awaits of a handler is one step. *)
(* CSRF and payloads are left out.                                         *)
(***************************************************************************)
EXTENDS Naturals, FiniteSets

CONSTANTS
    Tokens,     \* refresh tokens the backend can issue
    NoToken,
    Slots,      \* requests the browser can have open at once
    NoSlot,
    Sends       \* kinds of requests the browser makes

ASSUME NoTokenAssumption == NoToken \notin Tokens
ASSUME NoSlotAssumption == NoSlot \notin Slots
ASSUME SendsAssumption == Sends \subseteq {"api", "mfa", "refresh", "login", "logout"}

VARIABLES
    head, spent,        \* the backend's families, as in TokenFamilies
    family,             \* family_id of each issued token
    active,             \* the account is active
    late,               \* refresh calls the BFF gave up on, still to be served
    refreshRequests,    \* the BFF's map: the slot whose call is the pending promise
    req,                \* the requests
    jar,                \* the browser's access and refresh cookies
    world               \* fixed: what may happen in this behaviour

backend == <<head, spent, family, active, late>>
vars == <<head, spent, family, active, late, refreshRequests, req, jar, world>>

lossy == world.lossy            \* calls time out, answers are lost, the backend fails
sequential == world.sequential  \* the browser waits for each answer

Backend == INSTANCE TokenFamilies

\* mfa: an api call whose endpoint asks for the password once more.
Kinds == {"none"} \cup Sends

\* sent: on its way to the BFF.  try, retry: the proxied call, before and after
\* a refresh.  call: performRefreshAccessToken is awaited, reuse: the backend
\* closes the family for it, replied: its answer is on the way back.  join:
\* awaits the promise of another request.  me: the login's /auth/me.  closing:
\* the backend closes the family for the logout.  keep, set, clear: the answer,
\* by what it does to cookies.
PCs == {"idle", "sent", "try", "call", "reuse", "replied", "join", "retry",
        "login", "me", "logout", "closing", "keep", "set", "clear"}

Answers == {"keep", "set", "clear"}

\* access, refresh: the cookies its handler reads (access until it is read); got:
\* the token it brings back; seen: the family's live session as the backend found
\* it, to close it.
NoReq == [kind |-> "none", pc |-> "idle", access |-> FALSE,
          refresh |-> NoToken, got |-> NoToken, seen |-> NoToken]

Requests == [kind : Kinds, pc : PCs, access : BOOLEAN, refresh : Tokens \cup {NoToken},
             got : Tokens \cup {NoToken}, seen : Tokens \cup {NoToken}]

TypeOK ==
    /\ head \in [Tokens -> Tokens \cup {NoToken}]
    /\ spent \in SUBSET Tokens
    /\ family \in [Tokens -> Tokens \cup {NoToken}]
    /\ active \in BOOLEAN
    /\ late \in SUBSET Tokens
    /\ refreshRequests \in [Tokens -> Slots \cup {NoSlot}]
    /\ req \in [Slots -> Requests]
    /\ jar \in [access : BOOLEAN, refresh : Tokens \cup {NoToken}]
    /\ world \in [lossy : BOOLEAN, sequential : BOOLEAN]

Init ==
    /\ Backend!Init
    /\ family = [t \in Tokens |-> NoToken]
    /\ active = TRUE
    /\ late = {}
    /\ refreshRequests = [t \in Tokens |-> NoSlot]
    /\ req = [s \in Slots |-> NoReq]
    /\ jar = [access |-> FALSE, refresh |-> NoToken]
    /\ world \in [lossy : BOOLEAN, sequential : BOOLEAN]

-----------------------------------------------------------------------------
(* The backend. *)

\* POST /auth/refresh: the current token of an active user is replaced by n; any
\* other is reuse and closes its family.
Accepts(t) == active /\ head[family[t]] = t

RefreshAccepted(t, n) ==
    /\ Accepts(t)
    /\ Backend!Replace(family[t], n)
    /\ family' = [family EXCEPT ![n] = family[t]]

CloseIfOpen(f) == IF head[f] = NoToken THEN UNCHANGED <<head, spent>> ELSE Backend!Close({f})

\* _revoke_refresh_session_family: one UPDATE of the rows in its snapshot.  The
\* row of the request's own token is locked, so if that is the live one it goes
\* at once.  Any other live one may be refreshed before the UPDATE comes to it.
CloseFamilyOf(s, closing, closed) ==
    LET f == family[req[s].refresh]
    IN  IF head[f] \in {NoToken, req[s].refresh}
        THEN CloseIfOpen(f) /\ req' = [req EXCEPT ![s].pc = closed]
        ELSE /\ req' = [req EXCEPT ![s].pc = closing, ![s].seen = head[f]]
             /\ UNCHANGED <<head, spent>>

\* A session that took the place of the one seen is not in the snapshot.
CloseSeen(s, closing, closed) ==
    LET f == family[req[s].refresh]
    IN  /\ req[s].pc = closing
        /\ IF head[f] = req[s].seen THEN Backend!Close({f}) ELSE UNCHANGED <<head, spent>>
        /\ req' = [req EXCEPT ![s].pc = closed]

\* A refresh whose caller has stopped waiting is served all the same; what it
\* closes it closes now, later (as a Revoke), or misses.
ServeLate(t) ==
    /\ t \in late
    /\ late' = late \ {t}
    /\ \/ \E n \in Tokens : RefreshAccepted(t, n)
       \/ /\ ~Accepts(t)
          /\ Backend!Close({family[t]}) \/ UNCHANGED <<head, spent>>
          /\ UNCHANGED family
    /\ UNCHANGED <<active, refreshRequests, req, jar, world>>

\* Sessions are revoked from elsewhere: another device's password change, a
\* late logout, a deactivation.  The last two may miss the session of a refresh
\* or a login that commits meanwhile.
Revoke(F) ==
    /\ Backend!Close(F)
    /\ \/ F # {} /\ UNCHANGED active
       \/ active /\ active' = FALSE
    /\ UNCHANGED <<family, late, refreshRequests, req, jar, world>>

Reactivate ==
    /\ ~active
    /\ active' = TRUE
    /\ UNCHANGED <<head, spent, family, late, refreshRequests, req, jar, world>>

-----------------------------------------------------------------------------
(* The browser. *)

Open(s, kind) ==
    req' = [req EXCEPT ![s] = [NoReq EXCEPT !.kind = kind, !.pc = "sent",
                                 !.access = jar.access /\ kind \in {"api", "mfa"},
                                 !.refresh = jar.refresh]]

Send(s, kind) ==
    /\ req[s].pc = "idle"
    /\ sequential => \A r \in Slots : req[r].pc = "idle"
    /\ Open(s, kind)
    /\ UNCHANGED <<backend, refreshRequests, jar, world>>

\* Max-Age of the access cookie: expires_in of the token.
AccessExpires ==
    /\ jar.access
    /\ jar' = [jar EXCEPT !.access = FALSE]
    /\ UNCHANGED <<backend, refreshRequests, req, world>>

Closed(s) == req' = [req EXCEPT ![s] = NoReq]

\* Faulty variant: the two cookies' values are exchanged.
DeliverSwapped(s) ==
    /\ req[s].pc \in Answers
    /\ jar' = CASE req[s].pc = "set" -> [access |-> req[s].got, refresh |-> TRUE]
                [] req[s].pc = "clear" -> [access |-> FALSE, refresh |-> NoToken]
                [] OTHER -> jar
    /\ Closed(s)
    /\ UNCHANGED <<backend, refreshRequests, world>>

\* applySessionChanges, setAuthenticationCookies, clearAuthenticationCookies,
\* as the browser sees them.
Deliver(s) ==
    /\ req[s].pc \in Answers
    /\ jar' = CASE req[s].pc = "set" -> [access |-> TRUE, refresh |-> req[s].got]
                [] req[s].pc = "clear" -> [access |-> FALSE, refresh |-> NoToken]
                [] OTHER -> jar
    /\ Closed(s)
    /\ UNCHANGED <<backend, refreshRequests, world>>

\* The request or its answer is lost between browser and BFF.
Lose(s) ==
    /\ lossy
    /\ req[s].pc \in Answers \cup {"sent"}
    /\ Closed(s)
    /\ UNCHANGED <<backend, refreshRequests, jar, world>>

-----------------------------------------------------------------------------
(* The BFF. *)

GoTo(s, pc) == req' = [req EXCEPT ![s].pc = pc]

\* Faulty variant: no look at the map of pending refreshes.
RefreshUnshared(s) ==
    /\ GoTo(s, "call")
    /\ refreshRequests' = [refreshRequests EXCEPT ![req[s].refresh] = s]

\* refreshAccessToken: share the pending refresh of this token or start one.
RefreshAccessToken(s) ==
    LET t == req[s].refresh
    IN  IF refreshRequests[t] # NoSlot
        THEN GoTo(s, "join") /\ UNCHANGED refreshRequests
        ELSE GoTo(s, "call") /\ refreshRequests' = [refreshRequests EXCEPT ![t] = s]

\* Faulty variant: the backend's logout is not awaited.
ArriveLogoutUnawaited(s) ==
    /\ req[s].pc = "sent" /\ req[s].kind = "logout"
    /\ GoTo(s, "clear")
    /\ UNCHANGED <<backend, refreshRequests, jar, world>>

\* logout/route.ts: tell the backend, if there is a token to tell it of.
ArriveLogout(s) ==
    /\ req[s].pc = "sent" /\ req[s].kind = "logout"
    /\ GoTo(s, IF req[s].refresh = NoToken THEN "clear" ELSE "logout")
    /\ UNCHANGED <<backend, refreshRequests, jar, world>>

ArriveLogin(s) ==
    /\ req[s].pc = "sent" /\ req[s].kind = "login"
    /\ GoTo(s, "login")
    /\ UNCHANGED <<backend, refreshRequests, jar, world>>

\* authenticatedBackendRequest up to its first await, and refreshCurrentSession.
ArriveSession(s) ==
    /\ req[s].pc = "sent" /\ req[s].kind \in {"api", "mfa", "refresh"}
    /\ IF req[s].kind # "refresh" /\ req[s].access
       THEN /\ req' = [req EXCEPT ![s].pc = "try", ![s].access = FALSE]
            /\ UNCHANGED refreshRequests
       ELSE IF req[s].refresh = NoToken
            THEN GoTo(s, "clear") /\ UNCHANGED refreshRequests
            ELSE RefreshAccessToken(s)
    /\ UNCHANGED <<backend, jar, world>>

\* The proxied call with the access cookie.  401: the account is inactive, the
\* access token has expired by the backend's clock, or the password is wrong.
Try(s) ==
    /\ req[s].pc = "try"
    /\ \/ (active \/ lossy) /\ GoTo(s, "keep") /\ UNCHANGED refreshRequests
       \/ IF req[s].refresh = NoToken
          THEN GoTo(s, "clear") /\ UNCHANGED refreshRequests
          ELSE RefreshAccessToken(s)
    /\ UNCHANGED <<backend, jar, world>>

\* The backend serves the refresh of s; its answer travels back.
ServeRefresh(s) ==
    LET t == req[s].refresh
    IN  /\ \/ /\ req[s].pc = "call" /\ ~Accepts(t)
             /\ CloseFamilyOf(s, "reuse", "replied")
             /\ UNCHANGED family
          \/ /\ CloseSeen(s, "reuse", "replied")
             /\ UNCHANGED family
          \/ /\ req[s].pc = "call"
             /\ \E n \in Tokens :
                   /\ RefreshAccepted(t, n)
                   /\ req' = [req EXCEPT ![s].pc = "replied", ![s].got = n]
        /\ UNCHANGED <<active, late, refreshRequests, jar, world>>

\* Faulty variant: only the request that made the call goes on.
JoinedNobody(s) == {s}

\* The requests that await the promise of s.
Joined(s) == {s} \cup {r \in Slots : req[r].pc = "join" /\ req[r].refresh = req[s].refresh}

\* The promise settles: in the same microtask drain the map entry goes and
\* every request that awaits it goes on.
Settle(s, Continue(_)) ==
    /\ req' = [r \in Slots |-> IF r \in Joined(s) THEN Continue(req[r]) ELSE req[r]]
    /\ refreshRequests' = [refreshRequests EXCEPT ![req[s].refresh] = NoSlot]

\* Fulfilled with tokens: retry the call, or answer with the cookies.  With
\* null, the session is over.
RefreshAnswered(s) ==
    LET n == req[s].got
        Continue(r) == [r EXCEPT !.got = n,
                                 !.pc = IF n = NoToken THEN "clear"
                                        ELSE IF r.kind = "refresh" THEN "set" ELSE "retry"]
    IN  /\ req[s].pc = "replied"
        /\ Settle(s, Continue)
        /\ UNCHANGED <<backend, jar, world>>

\* Faulty variant: an error is taken for a refusal.
RefreshFailedClears(s) ==
    LET Continue(r) == [r EXCEPT !.got = NoToken, !.pc = "clear"]
    IN  /\ lossy
        /\ req[s].pc \in {"call", "reuse", "replied"}
        /\ late' = IF req[s].pc = "call" THEN late \cup {req[s].refresh} ELSE late
        /\ Settle(s, Continue)
        /\ UNCHANGED <<head, spent, family, active, jar, world>>

\* Rejected: timeout, lost connection, 5xx or a body that is no token response.
\* The error is answered and no cookie changed; the backend may have served the
\* call, serve it later, or still close the family (a Revoke).
RefreshFailed(s) ==
    LET Continue(r) == [r EXCEPT !.got = NoToken, !.pc = "keep"]
    IN  /\ lossy
        /\ req[s].pc \in {"call", "reuse", "replied"}
        /\ late' = IF req[s].pc = "call" THEN late \cup {req[s].refresh} ELSE late
        /\ Settle(s, Continue)
        /\ UNCHANGED <<head, spent, family, active, jar, world>>

\* Faulty variant: the proxy's 4xx answers do not carry the new cookies.
RetryDroppingTokens(s) ==
    /\ req[s].pc = "retry"
    /\ \/ (active \/ lossy) /\ GoTo(s, "keep")
       \/ ~active /\ GoTo(s, "clear")
    /\ UNCHANGED <<backend, refreshRequests, jar, world>>

\* Faulty variant: every error of the second call ends the session.
RetryClearing(s) ==
    /\ req[s].pc = "retry"
    /\ \/ (active \/ lossy) /\ GoTo(s, "set")
       \/ GoTo(s, "clear")
    /\ UNCHANGED <<backend, refreshRequests, jar, world>>

\* The call again, with the new access token: 401, also that of a wrong password
\* (disable_mfa), clears the cookies and drops the new tokens, anything else sets
\* them; an exception loses them.
Retry(s) ==
    /\ req[s].pc = "retry"
    /\ \/ (active \/ lossy) /\ GoTo(s, "set")
       \/ (~active \/ req[s].kind = "mfa") /\ GoTo(s, "clear")
       \/ lossy /\ GoTo(s, "keep")
    /\ UNCHANGED <<backend, refreshRequests, jar, world>>

\* login/route.ts, the first call: the backend opens a family, or refuses the
\* credentials.
ServeLogin(s) ==
    /\ req[s].pc = "login"
    /\ \/ \E n \in Tokens :
            /\ active
            /\ Backend!Open(n)
            /\ family' = [family EXCEPT ![n] = n]
            /\ req' = [req EXCEPT ![s].pc = "me", ![s].got = n]
       \/ GoTo(s, "keep") /\ UNCHANGED <<head, spent, family>>
    /\ UNCHANGED <<active, late, refreshRequests, jar, world>>

\* The second call, /auth/me: without it the tokens are dropped.
LoginMe(s) ==
    /\ req[s].pc = "me"
    /\ \/ active /\ GoTo(s, "set")
       \/ (lossy \/ ~active) /\ GoTo(s, "keep")
    /\ UNCHANGED <<backend, refreshRequests, jar, world>>

\* The backend closes the family; if it cannot be reached, or is not done in
\* time, the browser is logged out all the same.
ServeLogout(s) ==
    /\ \/ req[s].pc = "logout" /\ CloseFamilyOf(s, "closing", "clear")
       \/ CloseSeen(s, "closing", "clear")
       \/ /\ lossy /\ req[s].pc \in {"logout", "closing"}
          /\ GoTo(s, "clear")
          /\ UNCHANGED <<head, spent>>
    /\ UNCHANGED <<family, active, late, refreshRequests, jar, world>>

-----------------------------------------------------------------------------
Handle(s) ==
    \/ ArriveLogout(s) \/ ArriveLogin(s) \/ ArriveSession(s)
    \/ Try(s) \/ ServeRefresh(s) \/ RefreshAnswered(s) \/ RefreshFailed(s) \/ Retry(s)
    \/ ServeLogin(s) \/ LoginMe(s) \/ ServeLogout(s)
    \/ Deliver(s) \/ Lose(s)

Next ==
    \/ \E s \in Slots : Handle(s) \/ \E kind \in Sends : Send(s, kind)
    \/ \E t \in Tokens : ServeLate(t)
    \/ \E F \in SUBSET Tokens : Revoke(F)
    \/ Reactivate \/ AccessExpires

Spec == Init /\ [][Next]_vars

\* The world with failing calls and concurrent requests, the largest of the four.
FairInit == Init /\ world = [lossy |-> TRUE, sequential |-> FALSE]

\* Every call the BFF makes ends, by an answer or, where calls may fail, by
\* backendRequest's timer; nothing obliges the browser to send.
FairSpec ==
    /\ FairInit
    /\ [][Next]_vars
    /\ \A s \in Slots : WF_vars(Handle(s))

-----------------------------------------------------------------------------
(* Properties. *)

\* One refresh per token at a time (refreshRequests): two calls the BFF waits
\* for never present the same token, which the backend would take for reuse;
\* and no request waits for a refresh that nobody is making.
SingleFlight ==
    LET Calling(s) == req[s].pc \in {"call", "reuse", "replied"}
    IN  \A s \in Slots :
          /\ Calling(s) => \A r \in Slots \ {s} :
                             Calling(r) => req[r].refresh # req[s].refresh
          /\ req[s].pc = "join" => \E r \in Slots :
                             Calling(r) /\ req[r].refresh = req[s].refresh

\* An outage signs nobody out: outside a logout, an answer clears the cookies
\* only when it was sent without a refresh token or with one that can never be
\* redeemed again.
OutageSignsNobodyOut ==
    \A s \in Slots :
        req[s].pc = "clear" /\ req[s].kind # "logout" =>
            req[s].refresh = NoToken \/ req[s].refresh \in spent

\* When no call fails, a logout is answered only after its family is closed.  One
\* case is left, which a browser that waits for each answer does not meet: the
\* logout's token was refreshed before the backend served it, and the session the
\* backend found then was refreshed while it closed the family.
LogoutClosesFamily ==
    \A s \in Slots :
        ~lossy /\ req[s].pc = "clear" /\ req[s].kind = "logout" /\ req[s].refresh # NoToken
            => \/ head[family[req[s].refresh]] = NoToken
               \/ ~sequential /\ req[s].seen \in spent

\* When no call fails, a browser that waits for each answer never holds a refresh
\* token that was refreshed behind its back: as long as it has the cookie, the
\* family's current token, if there is one, is the cookie's own or on its way to
\* the browser (applySessionChanges on every path of the proxy).
SequentialCookieIsCurrent ==
    sequential /\ ~lossy /\ jar.refresh # NoToken =>
        head[family[jar.refresh]] \in
            {NoToken, jar.refresh} \cup {req[s].got : s \in Slots}

\* When no call fails, a browser that waits for each answer is signed out only
\* when its session is over: the answer of a call clears the cookies only if there
\* was none to refresh, the family is closed, or the account is inactive.  An mfa
\* call with a wrong password is the exception, and a logout is meant to.
SignsOutEndedSessions ==
    [][sequential /\ ~lossy =>
         \A s \in Slots :
            /\ req[s].kind \in {"api", "refresh"}
            /\ req[s].pc # "clear" /\ req'[s].pc = "clear"
            => \/ req[s].refresh = NoToken
               \/ head'[family[req[s].refresh]] = NoToken
               \/ ~active]_vars

\* Every request is answered, also those that joined a refresh that failed.
RequestsAnswered == \A s \in Slots : req[s].pc # "idle" ~> req[s].pc = "idle"

\* logout/route.ts:27 "A local logout must still succeed if the auth service
\* is unavailable": a browser without a session gets one only by logging in.
LogoutSticks ==
    [][\A s \in Slots :
         /\ Deliver(s)
         /\ jar.refresh = NoToken
         /\ jar'.refresh # NoToken
         => req[s].kind = "login"]_vars
=============================================================================
