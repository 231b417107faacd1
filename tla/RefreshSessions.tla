--------------------------- MODULE RefreshSessions ---------------------------
(***************************************************************************)
(* The refresh-session store of the backend: services/auth.py over the     *)
(* table refresh_sessions.  A login opens a FAMILY of sessions; each       *)
(* refresh revokes the session it is given and adds its successor to the   *)
(* same family; logout, reuse of a rotated token, a password change, an    *)
(* MFA change and a deactivation revoke whole families.                    *)
(*                                                                         *)
(* Requests run concurrently, each in a PostgreSQL transaction at READ     *)
(* COMMITTED (README, "For production"; SessionLocal sets no isolation     *)
(* level).  A process of Procs is a database connection serving one        *)
(* request.  SELECT ... FOR UPDATE is one step that needs the row's lock;  *)
(* a bulk UPDATE is a step that takes the statement's snapshot and then    *)
(* one step per row, which waits for the row's lock and reads the row      *)
(* again.  Statements nobody else can observe before the commit (the row   *)
(* the transaction already holds, the INSERT of a fresh row) are part of   *)
(* the commit step.                                                        *)
(***************************************************************************)
EXTENDS Naturals, FiniteSets

CONSTANTS
    Tokens,     \* jti values: one refresh token and its row each
    Users,      \* users of the organization
    Procs,      \* backend connections serving requests
    NoToken,    \* "no row": the family and parent of an absent row
    NoUser,
    NoProc      \* the holder of a free lock

ASSUME NoTokenAssumption == NoToken \notin Tokens
ASSUME NoUserAssumption  == NoUser \notin Users
ASSUME NoProcAssumption  == NoProc \notin Procs

VARIABLES
    status,     \* committed state of each row: absent, live (revoked_at NULL) or revoked
    family,     \* family_id: the token of the login that opened the family
    owner,      \* user_id
    parent,     \* history: the token whose refresh created this row
    expired,    \* rows whose expires_at has passed
    active,     \* users.is_active, committed
    rowLock,    \* holder of each refresh_sessions row lock
    userLock,   \* holder of each users row lock
    tx          \* the request each connection is serving

rows == <<status, family, owner, parent>>
vars == <<status, family, owner, parent, expired, active, rowLock, userLock, tx>>

FamilyOps == {"refresh", "logout"}              \* revoke one family
UserOps   == {"password", "mfa", "deactivate"}  \* revoke every family of a user
Ops       == {"none", "login"} \cup FamilyOps \cup UserOps

\* idle: no request.  verified: credentials accepted.  user: refresh is about
\* to read its user.  rotate: about to write.  userrow: about to UPDATE users.
\* scan: about to run the bulk UPDATE.  rows: in the bulk UPDATE, or past it.
PCs == {"idle", "verified", "user", "rotate", "userrow", "scan", "rows", "commit"}

\* scan: the snapshot of the bulk UPDATE.  todo: its rows still to visit.
\* kills: the rows it has revoked, not yet committed.
NoTx == [op |-> "none", pc |-> "idle", token |-> NoToken, user |-> NoUser,
         scan |-> {}, todo |-> {}, kills |-> {}]

Requests == [op : Ops, pc : PCs, token : Tokens \cup {NoToken}, user : Users \cup {NoUser},
             scan : SUBSET Tokens, todo : SUBSET Tokens, kills : SUBSET Tokens]

TypeOK ==
    /\ status \in [Tokens -> {"absent", "live", "revoked"}]
    /\ family \in [Tokens -> Tokens \cup {NoToken}]
    /\ owner \in [Tokens -> Users \cup {NoUser}]
    /\ parent \in [Tokens -> Tokens \cup {NoToken}]
    /\ expired \in SUBSET Tokens
    /\ active \in [Users -> BOOLEAN]
    /\ rowLock \in [Tokens -> Procs \cup {NoProc}]
    /\ userLock \in [Users -> Procs \cup {NoProc}]
    /\ tx \in [Procs -> Requests]

Init ==
    /\ status = [t \in Tokens |-> "absent"]
    /\ family = [t \in Tokens |-> NoToken]
    /\ owner = [t \in Tokens |-> NoUser]
    /\ parent = [t \in Tokens |-> NoToken]
    /\ expired = {}
    /\ active \in [Users -> BOOLEAN]
    /\ rowLock = [t \in Tokens |-> NoProc]
    /\ userLock = [u \in Users |-> NoProc]
    /\ tx = [p \in Procs |-> NoTx]

-----------------------------------------------------------------------------
(* Database steps shared by the requests. *)

Start(p, op, pc, t, u) ==
    tx' = [tx EXCEPT ![p] = [NoTx EXCEPT !.op = op, !.pc = pc, !.token = t, !.user = u]]

GoTo(p, pc) == tx' = [tx EXCEPT ![p] = [tx[p] EXCEPT !.pc = pc]]

\* Faulty variant: the session is never closed and keeps its locks.
EndUnclosed(p) == tx' = [tx EXCEPT ![p] = NoTx] /\ UNCHANGED <<rowLock, userLock>>

\* COMMIT and ROLLBACK end the request and free every lock it holds.
End(p) ==
    /\ tx' = [tx EXCEPT ![p] = NoTx]
    /\ rowLock' = [t \in Tokens |-> IF rowLock[t] = p THEN NoProc ELSE rowLock[t]]
    /\ userLock' = [u \in Users |-> IF userLock[u] = p THEN NoProc ELSE userLock[u]]

\* uuid4 jti: a row nobody has.
Fresh(n) == status[n] = "absent"

\* Faulty variant: family_id and user_id swapped in the call.
InsertSwapped(n, f, u, parentToken) ==
    /\ family' = [family EXCEPT ![n] = u]
    /\ owner' = [owner EXCEPT ![n] = f]
    /\ parent' = [parent EXCEPT ![n] = parentToken]

Insert(n, f, u, parentToken) ==
    /\ family' = [family EXCEPT ![n] = f]
    /\ owner' = [owner EXCEPT ![n] = u]
    /\ parent' = [parent EXCEPT ![n] = parentToken]

\* Faulty variant: lock_for_update left at its default, False.
SelectWithoutLock(p, t) ==
    /\ tx[p].pc = "idle"
    /\ status[t] # "absent"
    /\ UNCHANGED rowLock

\* get_by_token_jti_hash(lock_for_update=True): the row as of the moment its
\* lock is granted.  A client only holds tokens whose row is committed.
SelectForUpdate(p, t) ==
    /\ tx[p].pc = "idle"
    /\ status[t] # "absent"
    /\ rowLock[t] = NoProc
    /\ rowLock' = [rowLock EXCEPT ![t] = p]

-----------------------------------------------------------------------------
(* Login. *)

\* verify_user_credentials and verify_mfa: password, is_active and second
\* factor are accepted on what this read returns.
LoginVerify(p, u) ==
    /\ tx[p].pc = "idle"
    /\ active[u]
    /\ Start(p, "login", "verified", NoToken, u)
    /\ UNCHANGED <<rows, expired, active, rowLock, userLock>>

\* generate_authentication_tokens: a new family, inserted and committed.
LoginIssue(p, n) ==
    /\ tx[p].pc = "verified"
    /\ Fresh(n)
    /\ status' = [status EXCEPT ![n] = "live"]
    /\ Insert(n, n, tx[p].user, NoToken)
    /\ End(p)
    /\ UNCHANGED <<expired, active>>

-----------------------------------------------------------------------------
(* Refresh. *)

\* A revoked row is presented: reuse, revoke its family.
RefreshRevoked(p, t) ==
    /\ SelectForUpdate(p, t)
    /\ status[t] = "revoked"
    /\ Start(p, "refresh", "scan", t, owner[t])
    /\ UNCHANGED <<rows, expired, active, userLock>>

\* Faulty variant: the expiry is decided on an unlocked read.
ExpiredWithoutLock(p, t) ==
    /\ tx[p].pc = "idle"
    /\ status[t] = "live"
    /\ t \in expired
    /\ status' = [status EXCEPT ![t] = "revoked"]
    /\ UNCHANGED <<family, owner, parent, expired, active, rowLock, userLock, tx>>

\* An expired row is revoked alone and the request refused.
RefreshExpired(p, t) ==
    /\ tx[p].pc = "idle"
    /\ rowLock[t] = NoProc
    /\ status[t] = "live"
    /\ t \in expired
    /\ status' = [status EXCEPT ![t] = "revoked"]
    /\ UNCHANGED <<family, owner, parent, expired, active, rowLock, userLock, tx>>

RefreshLive(p, t) ==
    /\ SelectForUpdate(p, t)
    /\ status[t] = "live"
    /\ t \notin expired
    /\ Start(p, "refresh", "user", t, owner[t])
    /\ UNCHANGED <<rows, expired, active, userLock>>

\* The user is read without a lock: inactive users lose the family.
RefreshReadUser(p) ==
    /\ tx[p].pc = "user"
    /\ GoTo(p, IF active[tx[p].user] THEN "rotate" ELSE "scan")
    /\ UNCHANGED <<rows, expired, active, rowLock, userLock>>

\* Faulty variant: the presented row is left as it is.
RotateKeepingOld(p, n) ==
    /\ tx[p].pc = "rotate"
    /\ Fresh(n)
    /\ status' = [status EXCEPT ![n] = "live"]
    /\ Insert(n, family[tx[p].token], tx[p].user, tx[p].token)
    /\ End(p)
    /\ UNCHANGED <<expired, active>>

\* Faulty variant: the successor opens a family of its own.
RotateIntoNewFamily(p, n) ==
    /\ tx[p].pc = "rotate"
    /\ Fresh(n)
    /\ status' = [status EXCEPT ![tx[p].token] = "revoked", ![n] = "live"]
    /\ Insert(n, n, tx[p].user, tx[p].token)
    /\ End(p)
    /\ UNCHANGED <<expired, active>>

\* Revoke the presented row, insert its successor, commit.
Rotate(p, n) ==
    /\ tx[p].pc = "rotate"
    /\ Fresh(n)
    /\ status' = [status EXCEPT ![tx[p].token] = "revoked", ![n] = "live"]
    /\ Insert(n, family[tx[p].token], tx[p].user, tx[p].token)
    /\ End(p)
    /\ UNCHANGED <<expired, active>>

-----------------------------------------------------------------------------
(* Requests that revoke without issuing. *)

Logout(p, t) ==
    /\ SelectForUpdate(p, t)
    /\ Start(p, "logout", "scan", t, owner[t])
    /\ UNCHANGED <<rows, expired, active, userLock>>

\* change_password: the password hash is flushed to users before the bulk
\* UPDATE of the sessions.
ChangePassword(p, u) ==
    /\ tx[p].pc = "idle"
    /\ active[u]
    /\ Start(p, "password", "userrow", NoToken, u)
    /\ UNCHANGED <<rows, expired, active, rowLock, userLock>>

\* confirm_mfa and disable_mfa set attributes only; with autoflush off, the
\* sessions' UPDATE goes first and the users UPDATE follows it.
ChangeMfa(p, u) ==
    /\ tx[p].pc = "idle"
    /\ active[u]
    /\ Start(p, "mfa", "scan", NoToken, u)
    /\ UNCHANGED <<rows, expired, active, rowLock, userLock>>

\* update_user with is_active = False: no users UPDATE is emitted when the
\* value read is False already.
Deactivate(p, u) ==
    /\ tx[p].pc = "idle"
    /\ Start(p, "deactivate", IF active[u] THEN "userrow" ELSE "scan", NoToken, u)
    /\ UNCHANGED <<rows, expired, active, rowLock, userLock>>

\* update_user with is_active = True: one UPDATE, committed.
Activate(u) ==
    /\ ~active[u]
    /\ userLock[u] = NoProc
    /\ active' = [active EXCEPT ![u] = TRUE]
    /\ UNCHANGED <<rows, expired, rowLock, userLock, tx>>

\* The flushed UPDATE users ... WHERE id = u.
LockUser(p) ==
    /\ \/ tx[p].pc = "userrow" /\ GoTo(p, "scan")
       \/ tx[p].pc = "rows" /\ tx[p].op = "mfa" /\ tx[p].todo = {} /\ GoTo(p, "commit")
    /\ userLock[tx[p].user] = NoProc
    /\ userLock' = [userLock EXCEPT ![tx[p].user] = p]
    /\ UNCHANGED <<rows, expired, active, rowLock>>

\* Faulty variant: the family is revoked except for the presented row.
ScopeOfOthers(p) == IF tx[p].op \in FamilyOps
                    THEN {t \in Tokens : family[t] = family[tx[p].token]} \ {tx[p].token}
                    ELSE {t \in Tokens : owner[t] = tx[p].user}

\* The snapshot of revoke_family or revoke_all_for_user: the committed rows
\* with revoked_at IS NULL in its scope.
Scope(p) == IF tx[p].op \in FamilyOps
            THEN {t \in Tokens : family[t] = family[tx[p].token]}
            ELSE {t \in Tokens : owner[t] = tx[p].user}

Scan(p) ==
    LET snapshot == {t \in Scope(p) : status[t] = "live"}
    IN  /\ tx[p].pc = "scan"
        /\ tx' = [tx EXCEPT ![p] = [tx[p] EXCEPT !.pc = "rows", !.scan = snapshot,
                                                    !.todo = snapshot]]
        /\ UNCHANGED <<rows, expired, active, rowLock, userLock>>

Visit(p, t, killed) ==
    tx' = [tx EXCEPT ![p] = [tx[p] EXCEPT !.todo = tx[p].todo \ {t},
                                          !.kills = tx[p].kills \cup killed]]

\* Faulty variant: rows locked by others are skipped (SKIP LOCKED).
RevokeRowSkipLocked(p, t) ==
    /\ tx[p].pc = "rows"
    /\ t \in tx[p].todo
    /\ IF status[t] = "live" /\ rowLock[t] \in {p, NoProc}
       THEN Visit(p, t, {t}) /\ rowLock' = [rowLock EXCEPT ![t] = p]
       ELSE Visit(p, t, {}) /\ UNCHANGED rowLock
    /\ UNCHANGED <<rows, expired, active, userLock>>

\* One row of the bulk UPDATE: wait for its lock, evaluate WHERE again.
RevokeRow(p, t) ==
    /\ tx[p].pc = "rows"
    /\ t \in tx[p].todo
    /\ rowLock[t] \in {p, NoProc}
    /\ IF status[t] = "live"
       THEN Visit(p, t, {t}) /\ rowLock' = [rowLock EXCEPT ![t] = p]
       ELSE Visit(p, t, {}) /\ UNCHANGED rowLock
    /\ UNCHANGED <<rows, expired, active, userLock>>

\* COMMIT of a revocation, with the users UPDATE it may carry.
Commit(p) ==
    /\ \/ tx[p].pc = "rows" /\ tx[p].op # "mfa" /\ tx[p].todo = {}
       \/ tx[p].pc = "commit"
    /\ status' = [t \in Tokens |-> IF t \in tx[p].kills THEN "revoked" ELSE status[t]]
    /\ active' = [u \in Users |-> IF tx[p].op = "deactivate" /\ userLock[u] = p
                                  THEN FALSE ELSE active[u]]
    /\ End(p)
    /\ UNCHANGED <<family, owner, parent, expired>>

-----------------------------------------------------------------------------
(* The environment. *)

\* The request fails: IntegrityError, a lost connection, a killed process.
\* Nothing it wrote was visible, nothing remains.
Abort(p) ==
    /\ tx[p].pc # "idle"
    /\ End(p)
    /\ UNCHANGED <<rows, expired, active>>

\* expires_at of a row passes; no request asks about a revoked row's expiry.
\* An expired token fails decode_token, so a request that finds its row expired
\* is one that waited for the row's lock while the time passed.
Expire(t) ==
    /\ status[t] = "live"
    /\ t \notin expired
    /\ expired' = expired \cup {t}
    /\ UNCHANGED <<rows, active, rowLock, userLock, tx>>

-----------------------------------------------------------------------------
Begin(p) ==
    \/ \E u \in Users : LoginVerify(p, u) \/ ChangePassword(p, u) \/ ChangeMfa(p, u)
                        \/ Deactivate(p, u)
    \/ \E t \in Tokens : \/ RefreshRevoked(p, t) \/ RefreshExpired(p, t)
                         \/ RefreshLive(p, t) \/ Logout(p, t)

Proceed(p) ==
    \/ \E n \in Tokens : LoginIssue(p, n) \/ Rotate(p, n) \/ RevokeRow(p, n)
    \/ RefreshReadUser(p) \/ LockUser(p) \/ Scan(p) \/ Commit(p)

Next ==
    \/ \E p \in Procs : Begin(p) \/ Proceed(p) \/ Abort(p)
    \/ \E u \in Users : Activate(u)
    \/ \E t \in Tokens : Expire(t)

Spec == Init /\ [][Next]_vars

(* p is held up by q: the row p needs next is locked by q. *)
WaitsFor(p, q) ==
    /\ p # q
    /\ \/ /\ \/ tx[p].pc = "userrow"
             \/ tx[p].pc = "rows" /\ tx[p].op = "mfa" /\ tx[p].todo = {}
          /\ userLock[tx[p].user] = q
       \/ /\ tx[p].pc = "rows" /\ tx[p].todo # {}
          /\ \A t \in tx[p].todo : rowLock[t] \notin {p, NoProc}
          /\ \E t \in tx[p].todo : rowLock[t] = q

InCycle(p) == \E S \in SUBSET Procs : p \in S /\ \A q \in S : \E r \in S : WaitsFor(q, r)

\* PostgreSQL's deadlock detector: a waiter in a cycle is rolled back.
DeadlockVictim(p) == InCycle(p) /\ Abort(p)

\* A request whose row could not be given a fresh identifier: the bound on
\* Tokens, not the program, stops it.
OutOfTokens == \A n \in Tokens : ~Fresh(n)
Exhausted(p) == tx[p].pc \in {"verified", "rotate"} /\ OutOfTokens /\ Abort(p)

\* Each connection goes on with its statements; a waiter gets the lock it waits
\* for when the lock is freed again and again (PostgreSQL queues the waiters of
\* a row); deadlocks are resolved.  Nothing obliges a client to send a request,
\* a row to expire or a request to fail.
Fairness ==
    \A p \in Procs :
        /\ WF_vars(Proceed(p)) /\ WF_vars(DeadlockVictim(p)) /\ WF_vars(Exhausted(p))
        /\ SF_vars(LockUser(p)) /\ SF_vars(\E t \in Tokens : RevokeRow(p, t))

FairSpec == Spec /\ Fairness

-----------------------------------------------------------------------------
(* Properties. *)

\* Rotation leaves one usable token: however refreshes, logouts, revocations
\* and crashes interleave, a family never has two sessions that could both be
\* redeemed (refresh_authentication_tokens revokes before it inserts, under
\* the lock of the presented row).
AtMostOneLive ==
    \A s, t \in Tokens :
        status[s] = "live" /\ status[t] = "live" /\ family[s] = family[t] => s = t

\* A refresh token is redeemed at most once, even when the same token is sent
\* in several concurrent refreshes: no two rows have the same parent.
SingleSuccessor ==
    \A s, t \in Tokens : parent[s] = parent[t] /\ parent[s] # NoToken => s = t

\* The strengthening that makes the two inductive.  Rows: a row has a family
\* that was opened, and only a revoked row has a successor.
RowsWellFormed ==
    \A t \in Tokens :
        /\ status[t] = "absent" => family[t] = NoToken /\ parent[t] = NoToken
        /\ status[t] # "absent" => family[t] \in Tokens /\ status[family[t]] # "absent"
        /\ parent[t] # NoToken => status[parent[t]] = "revoked"

\* Requests: what a request read under a lock is still so, and the bulk UPDATE
\* accounts for every row of its snapshot.
LockDisciplineOf(p) ==
    /\ tx[p].op \in FamilyOps =>
          /\ tx[p].token \in Tokens
          /\ rowLock[tx[p].token] = p
    /\ \A t \in Tokens : rowLock[t] = p => status[t] # "absent"
    /\ tx[p].pc \in {"user", "rotate"} => tx[p].op = "refresh" /\ status[tx[p].token] = "live"
    /\ \A t \in tx[p].kills : rowLock[t] = p /\ status[t] = "live"
    /\ tx[p].pc = "commit" => tx[p].op = "mfa" /\ tx[p].todo = {}
    /\ \A t \in tx[p].todo : status[t] # "absent"
    /\ tx[p].pc \in {"rows", "commit"} =>
          \A t \in tx[p].scan : t \in tx[p].todo \cup tx[p].kills \/ status[t] = "revoked"
    /\ tx[p].pc = "rows" /\ tx[p].op \in FamilyOps /\ status[tx[p].token] = "live" =>
          tx[p].token \in tx[p].scan

LockDiscipline == \A p \in Procs : LockDisciplineOf(p)

Inv == TypeOK /\ RowsWellFormed /\ LockDiscipline /\ AtMostOneLive /\ SingleSuccessor

\* Once no session of a family is live the family is closed for good: a
\* refresh that was already past its checks when the logout or the expiry came
\* cannot bring it back.
DeadFamilyStaysDead ==
    [][\A f \in Tokens :
         /\ status[f] # "absent"
         /\ \A t \in Tokens : family[t] = f => status[t] # "live"
         => \A t \in Tokens : family'[t] = f => status'[t] # "live"]_vars

\* Logout (or a refresh by a deactivated user) with the family's current token
\* leaves no live session in the family: nothing slips in between the lock of
\* the row and the bulk UPDATE.
CurrentTokenLogoutEndsFamily ==
    [][\A p \in Procs :
         /\ Commit(p)
         /\ tx[p].op \in FamilyOps
         /\ status[tx[p].token] = "live"
         => \A t \in Tokens : family[t] = family[tx[p].token] => status'[t] # "live"]_vars

\* What the bulk UPDATE does guarantee: when it commits, every session that
\* was committed and live when the statement started is revoked, also those it
\* had to wait for.
SnapshotRevoked ==
    [][\A p \in Procs : Commit(p) => \A t \in tx[p].scan : status'[t] = "revoked"]_vars

\* Every request ends, in spite of the lock orders of change_password (users
\* row, then sessions) and the MFA changes (sessions, then users row).
RequestsEnd == \A p \in Procs : tx[p].pc # "idle" ~> tx[p].pc = "idle"

\* repositories/refresh_session.py:93 "Revoke every active refresh session
\* owned by one organization user", and tests/test_refresh_session_api.py:138-145
\* of a family whose rotated token is presented again: no session in the scope
\* of a revocation is live when it commits.
RevocationLeavesNoneLive ==
    [][\A p \in Procs : Commit(p) =>
         \A t \in Tokens :
            IF tx[p].op \in UserOps THEN owner[t] = tx[p].user => status'[t] # "live"
            ELSE tx[p].op = "refresh" /\ family[t] = family[tx[p].token] => status'[t] # "live"]_vars
=============================================================================
