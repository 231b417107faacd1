------------------------ MODULE RefreshSessions_proofs ------------------------
(***************************************************************************)
(* Proofs about RefreshSessions, for any sets of tokens, users and         *)
(* connections, and that it implements TokenFamilies.                      *)
(***************************************************************************)
EXTENDS RefreshRefinement, TLAPS

USE NoTokenAssumption, NoProcAssumption DEF Ops, FamilyOps, UserOps, PCs

-----------------------------------------------------------------------------
(* Types of the request table. *)

LEMMA NoTxType == NoTx \in Requests
  BY DEF NoTx, Requests

LEMMA RequestType ==
  ASSUME TypeOK, NEW p \in Procs
  PROVE  /\ tx[p] \in Requests
         /\ tx[p].op \in Ops /\ tx[p].pc \in PCs
         /\ tx[p].token \in Tokens \cup {NoToken} /\ tx[p].user \in Users \cup {NoUser}
         /\ tx[p].scan \subseteq Tokens /\ tx[p].todo \subseteq Tokens
         /\ tx[p].kills \subseteq Tokens
  BY DEF TypeOK, Requests

LEMMA TableType ==
  ASSUME TypeOK, NEW p \in Procs, NEW r \in Requests
  PROVE  [tx EXCEPT ![p] = r] \in [Procs -> Requests]
  BY DEF TypeOK

LEMMA PcType ==
  ASSUME NEW r \in Requests, NEW c \in PCs
  PROVE  [r EXCEPT !.pc = c] \in Requests
  BY DEF Requests

LEMMA ScanType ==
  ASSUME NEW r \in Requests, NEW S \in SUBSET Tokens
  PROVE  [r EXCEPT !.pc = "rows", !.scan = S, !.todo = S] \in Requests
  BY DEF Requests

LEMMA VisitType ==
  ASSUME TypeOK, NEW p \in Procs, NEW t \in Tokens, NEW K \in SUBSET Tokens, Visit(p, t, K)
  PROVE  tx' \in [Procs -> Requests]
<1> DEFINE r == [tx[p] EXCEPT !.todo = tx[p].todo \ {t}, !.kills = tx[p].kills \cup K]
<1>1. r \in Requests
  BY RequestType DEF Requests
<1> QED
  BY <1>1, TableType DEF Visit

LEMMA StartType ==
  ASSUME TypeOK, NEW p \in Procs, NEW o \in Ops, NEW c \in PCs,
         NEW t \in Tokens \cup {NoToken}, NEW u \in Users \cup {NoUser}, Start(p, o, c, t, u)
  PROVE  tx' \in [Procs -> Requests]
<1> DEFINE r == [NoTx EXCEPT !.op = o, !.pc = c, !.token = t, !.user = u]
<1>1. r \in Requests
  BY DEF NoTx, Requests
<1> QED
  BY <1>1, TableType DEF Start

LEMMA StartFields ==
  ASSUME TypeOK, NEW p \in Procs, NEW o, NEW c, NEW t, NEW u, Start(p, o, c, t, u)
  PROVE  /\ tx'[p].op = o /\ tx'[p].pc = c /\ tx'[p].token = t /\ tx'[p].user = u
         /\ tx'[p].scan = {} /\ tx'[p].todo = {} /\ tx'[p].kills = {}
  BY DEF Start, NoTx, TypeOK

LEMMA GoToType ==
  ASSUME TypeOK, NEW p \in Procs, NEW c \in PCs, GoTo(p, c)
  PROVE  tx' \in [Procs -> Requests]
  BY PcType, TableType, RequestType DEF GoTo

\* Ending a request leaves the lock tables and the request table well typed.
LEMMA EndType ==
  ASSUME TypeOK, NEW p \in Procs, End(p)
  PROVE  /\ rowLock' \in [Tokens -> Procs \cup {NoProc}]
         /\ userLock' \in [Users -> Procs \cup {NoProc}]
         /\ tx' \in [Procs -> Requests]
  BY NoTxType DEF TypeOK, End

-----------------------------------------------------------------------------
LEMMA TypeInit == Init => TypeOK
  BY NoTxType DEF Init, TypeOK

LEMMA TypeNext ==
  ASSUME TypeOK, LockDiscipline, [Next]_vars
  PROVE  TypeOK'
<1>1. ASSUME NEW p \in Procs, NEW u \in Users, LoginVerify(p, u) PROVE TypeOK'
  <2>1. tx' \in [Procs -> Requests]
    BY <1>1, StartType DEF LoginVerify
  <2> QED
    BY <1>1, <2>1 DEF LoginVerify, rows, TypeOK
<1>2. ASSUME NEW p \in Procs, NEW n \in Tokens, LoginIssue(p, n) PROVE TypeOK'
  BY <1>2, EndType, RequestType DEF LoginIssue, Insert, TypeOK
<1>3. ASSUME NEW p \in Procs, NEW t \in Tokens, RefreshRevoked(p, t) PROVE TypeOK'
  <2>1. tx' \in [Procs -> Requests]
    BY <1>3, StartType DEF RefreshRevoked, TypeOK
  <2> QED
    BY <1>3, <2>1 DEF RefreshRevoked, SelectForUpdate, rows, TypeOK
<1>4. ASSUME NEW p \in Procs, NEW t \in Tokens, RefreshExpired(p, t) PROVE TypeOK'
  BY <1>4 DEF RefreshExpired, TypeOK
<1>5. ASSUME NEW p \in Procs, NEW t \in Tokens, RefreshLive(p, t) PROVE TypeOK'
  <2>1. tx' \in [Procs -> Requests]
    BY <1>5, StartType DEF RefreshLive, TypeOK
  <2> QED
    BY <1>5, <2>1 DEF RefreshLive, SelectForUpdate, rows, TypeOK
<1>6. ASSUME NEW p \in Procs, RefreshReadUser(p) PROVE TypeOK'
  <2>1. tx' \in [Procs -> Requests]
    BY <1>6, GoToType DEF RefreshReadUser
  <2> QED
    BY <1>6, <2>1 DEF RefreshReadUser, rows, TypeOK
<1>7. ASSUME NEW p \in Procs, NEW n \in Tokens, Rotate(p, n) PROVE TypeOK'
  <2>1. tx[p].token \in Tokens
    BY <1>7 DEF Rotate, LockDiscipline, LockDisciplineOf
  <2> QED
    BY <1>7, <2>1, EndType, RequestType DEF Rotate, Insert, TypeOK
<1>8. ASSUME NEW p \in Procs, NEW t \in Tokens, Logout(p, t) PROVE TypeOK'
  <2>1. tx' \in [Procs -> Requests]
    BY <1>8, StartType DEF Logout, TypeOK
  <2> QED
    BY <1>8, <2>1 DEF Logout, SelectForUpdate, rows, TypeOK
<1>9. ASSUME NEW p \in Procs, NEW u \in Users, ChangePassword(p, u) PROVE TypeOK'
  <2>1. tx' \in [Procs -> Requests]
    BY <1>9, StartType DEF ChangePassword
  <2> QED
    BY <1>9, <2>1 DEF ChangePassword, rows, TypeOK
<1>10. ASSUME NEW p \in Procs, NEW u \in Users, ChangeMfa(p, u) PROVE TypeOK'
  <2>1. tx' \in [Procs -> Requests]
    BY <1>10, StartType DEF ChangeMfa
  <2> QED
    BY <1>10, <2>1 DEF ChangeMfa, rows, TypeOK
<1>11. ASSUME NEW p \in Procs, NEW u \in Users, Deactivate(p, u) PROVE TypeOK'
  <2>1. tx' \in [Procs -> Requests]
    BY <1>11, StartType DEF Deactivate
  <2> QED
    BY <1>11, <2>1 DEF Deactivate, rows, TypeOK
<1>12. ASSUME NEW u \in Users, Activate(u) PROVE TypeOK'
  BY <1>12 DEF Activate, rows, TypeOK
<1>13. ASSUME NEW p \in Procs, LockUser(p) PROVE TypeOK'
  <2>1. tx' \in [Procs -> Requests]
    BY <1>13, GoToType DEF LockUser
  <2> QED
    BY <1>13, <2>1 DEF LockUser, rows, TypeOK
<1>14. ASSUME NEW p \in Procs, Scan(p) PROVE TypeOK'
  <2>1. tx' \in [Procs -> Requests]
    BY <1>14, ScanType, TableType, RequestType DEF Scan, Scope
  <2> QED
    BY <1>14, <2>1 DEF Scan, rows, TypeOK
<1>15. ASSUME NEW p \in Procs, NEW t \in Tokens, RevokeRow(p, t) PROVE TypeOK'
  <2>1. tx' \in [Procs -> Requests]
    BY <1>15, VisitType DEF RevokeRow
  <2> QED
    BY <1>15, <2>1 DEF RevokeRow, rows, TypeOK
<1>16. ASSUME NEW p \in Procs, Commit(p) PROVE TypeOK'
  BY <1>16, EndType DEF Commit, TypeOK
<1>17. ASSUME NEW p \in Procs, Abort(p) PROVE TypeOK'
  BY <1>17, EndType DEF Abort, rows, TypeOK
<1>18. ASSUME NEW t \in Tokens, Expire(t) PROVE TypeOK'
  BY <1>18 DEF Expire, rows, TypeOK
<1>19. CASE UNCHANGED vars
  BY <1>19 DEF vars, rows, TypeOK
<1> QED
  BY <1>1, <1>2, <1>3, <1>4, <1>5, <1>6, <1>7, <1>8, <1>9, <1>10, <1>11, <1>12,
     <1>13, <1>14, <1>15, <1>16, <1>17, <1>18, <1>19 DEF Next, Begin, Proceed

-----------------------------------------------------------------------------
(* The lock discipline. *)

\* What a step of p leaves to another request q: its record, its locks, the
\* rows it has locked; and no row is ever un-revoked.
Frame(q) ==
    /\ tx'[q] = tx[q]
    /\ \A t \in Tokens : rowLock'[t] = q <=> rowLock[t] = q
    /\ \A t \in Tokens : rowLock[t] = q => status'[t] = status[t]
    /\ \A t \in Tokens : status[t] = "revoked" => status'[t] = "revoked"
    /\ \A t \in Tokens : status[t] # "absent" => status'[t] # "absent"

LEMMA FrameKeeps ==
  ASSUME TypeOK, NEW q \in Procs, LockDisciplineOf(q), Frame(q)
  PROVE  LockDisciplineOf(q)'
<1>1. tx[q].kills \subseteq Tokens /\ tx[q].scan \subseteq Tokens /\ tx[q].todo \subseteq Tokens
  BY RequestType
<1>2. tx'[q] = tx[q]
  BY DEF Frame
<1> QED
  BY <1>1, <1>2 DEF LockDisciplineOf, Frame

\* A step of p gives every other request its frame.
LEMMA StepFrame ==
  ASSUME TypeOK, LockDiscipline, NEW p \in Procs, NEW q \in Procs, q # p,
         Begin(p) \/ Proceed(p) \/ Abort(p)
  PROVE  Frame(q)
<1> tx \in [Procs -> Requests] /\ rowLock \in [Tokens -> Procs \cup {NoProc}]
    /\ status \in [Tokens -> {"absent", "live", "revoked"}]
  BY DEF TypeOK
<1>1. ASSUME NEW u \in Users, LoginVerify(p, u) \/ ChangePassword(p, u) \/ ChangeMfa(p, u)
                              \/ Deactivate(p, u)
      PROVE  Frame(q)
  BY <1>1 DEF LoginVerify, ChangePassword, ChangeMfa, Deactivate, Start, Frame, rows
<1>2. ASSUME NEW t \in Tokens, RefreshRevoked(p, t) \/ RefreshLive(p, t) \/ Logout(p, t)
      PROVE  Frame(q)
  BY <1>2 DEF RefreshRevoked, RefreshLive, Logout, SelectForUpdate, Start, Frame, rows
<1>3. ASSUME NEW t \in Tokens, RefreshExpired(p, t) PROVE Frame(q)
  BY <1>3 DEF RefreshExpired, Frame
<1>4. ASSUME NEW n \in Tokens, LoginIssue(p, n) PROVE Frame(q)
  <2>1. \A t \in Tokens : rowLock[t] = q => t # n
    BY <1>4 DEF LoginIssue, Fresh, LockDiscipline, LockDisciplineOf
  <2> QED
    BY <1>4, <2>1 DEF LoginIssue, Fresh, End, Frame
<1>5. ASSUME NEW n \in Tokens, Rotate(p, n) PROVE Frame(q)
  <2>1. tx[p].token \in Tokens /\ rowLock[tx[p].token] = p
    BY <1>5 DEF Rotate, LockDiscipline, LockDisciplineOf
  <2>2. \A t \in Tokens : rowLock[t] = q => t # n
    BY <1>5 DEF Rotate, Fresh, LockDiscipline, LockDisciplineOf
  <2> QED
    BY <1>5, <2>1, <2>2 DEF Rotate, Fresh, End, Frame
<1>6. ASSUME NEW t \in Tokens, RevokeRow(p, t) PROVE Frame(q)
  BY <1>6 DEF RevokeRow, Visit, Frame, rows
<1>7. CASE RefreshReadUser(p) \/ LockUser(p) \/ Scan(p)
  BY <1>7 DEF RefreshReadUser, LockUser, Scan, GoTo, Frame, rows
<1>8. CASE Commit(p)
  <2>1. \A t \in tx[p].kills : rowLock[t] = p
    BY DEF LockDiscipline, LockDisciplineOf
  <2> QED
    BY <1>8, <2>1 DEF Commit, End, Frame
<1>9. CASE Abort(p)
  BY <1>9 DEF Abort, End, Frame, rows
<1> QED
  BY <1>1, <1>2, <1>3, <1>4, <1>5, <1>6, <1>7, <1>8, <1>9 DEF Begin, Proceed

\* The request that moves keeps its own discipline.
LEMMA OwnStep ==
  ASSUME TypeOK, RowsWellFormed, LockDiscipline, NEW p \in Procs,
         Begin(p) \/ Proceed(p) \/ Abort(p)
  PROVE  LockDisciplineOf(p)'
<1> USE DEF NoTx
<1> tx \in [Procs -> Requests] /\ rowLock \in [Tokens -> Procs \cup {NoProc}]
    /\ status \in [Tokens -> {"absent", "live", "revoked"}]
  BY DEF TypeOK
<1> LockDisciplineOf(p)
  BY DEF LockDiscipline
<1>1. ASSUME NEW u \in Users, LoginVerify(p, u) \/ ChangePassword(p, u) \/ ChangeMfa(p, u)
                              \/ Deactivate(p, u)
      PROVE  LockDisciplineOf(p)'
  BY <1>1, StartFields
  DEF LoginVerify, ChangePassword, ChangeMfa, Deactivate, LockDisciplineOf, rows
<1>2. ASSUME NEW t \in Tokens, RefreshRevoked(p, t) \/ RefreshLive(p, t) \/ Logout(p, t)
      PROVE  LockDisciplineOf(p)'
  BY <1>2, StartFields
  DEF RefreshRevoked, RefreshLive, Logout, SelectForUpdate, LockDisciplineOf, rows
<1>3. ASSUME NEW t \in Tokens, RefreshExpired(p, t) PROVE LockDisciplineOf(p)'
  <2>1. Frame(p)
    BY <1>3 DEF RefreshExpired, Frame
  <2> QED
    BY <2>1, FrameKeeps
<1>4. ASSUME End(p) PROVE LockDisciplineOf(p)'
  BY <1>4 DEF End, LockDisciplineOf
<1>5. ASSUME NEW t \in Tokens, RevokeRow(p, t) PROVE LockDisciplineOf(p)'
  <2>1. PICK K \in SUBSET {t} : /\ Visit(p, t, K)
                                /\ t \in K <=> status[t] = "live"
    BY <1>5 DEF RevokeRow
  <2>2. /\ tx'[p].op = tx[p].op /\ tx'[p].pc = tx[p].pc /\ tx'[p].token = tx[p].token
        /\ tx'[p].scan = tx[p].scan
        /\ tx'[p].todo = tx[p].todo \ {t} /\ tx'[p].kills = tx[p].kills \cup K
    BY <2>1, RequestType DEF Visit, Requests
  <2>3. /\ status' = status /\ tx[p].pc = "rows" /\ t \in tx[p].todo
        /\ \A s \in Tokens : rowLock[s] = p => rowLock'[s] = p
        /\ \A s \in Tokens : rowLock'[s] = p => rowLock[s] = p \/ s = t
        /\ t \in K => rowLock'[t] = p
    BY <1>5, <2>1 DEF RevokeRow, rows
  <2> QED
    BY <2>1, <2>2, <2>3, RequestType DEF LockDisciplineOf
<1>6. CASE RefreshReadUser(p)
  BY <1>6, RequestType DEF RefreshReadUser, GoTo, LockDisciplineOf, rows, Requests
<1>7. CASE LockUser(p)
  BY <1>7, RequestType DEF LockUser, GoTo, LockDisciplineOf, rows, Requests
<1>8. CASE Scan(p)
  BY <1>8, RequestType DEF Scan, Scope, LockDisciplineOf, rows, Requests
<1> QED
  BY <1>1, <1>2, <1>3, <1>4, <1>5, <1>6, <1>7, <1>8
  DEF Begin, Proceed, LoginIssue, Rotate, Commit, Abort

LEMMA DisciplineNext ==
  ASSUME TypeOK, RowsWellFormed, LockDiscipline, [Next]_vars
  PROVE  LockDiscipline'
<1>1. ASSUME NEW p \in Procs, Begin(p) \/ Proceed(p) \/ Abort(p) PROVE LockDiscipline'
  <2>1. ASSUME NEW q \in Procs PROVE LockDisciplineOf(q)'
    <3>1. CASE q = p
      BY <1>1, <3>1, OwnStep
    <3>2. CASE q # p
      BY <1>1, <3>2, StepFrame, FrameKeeps DEF LockDiscipline
    <3> QED
      BY <3>1, <3>2
  <2> QED
    BY <2>1 DEF LockDiscipline
<1>2. ASSUME UNCHANGED <<status, rowLock, tx>> PROVE LockDiscipline'
  BY <1>2 DEF LockDiscipline, LockDisciplineOf
<1> QED
  BY <1>1, <1>2 DEF Next, Activate, Expire, vars, rows

-----------------------------------------------------------------------------
(* What a step can do to the committed rows: nothing, or one of the three   *)
(* changes a commit makes.                                                  *)

Opened(n) ==
    /\ status[n] = "absent"
    /\ status' = [status EXCEPT ![n] = "live"]
    /\ family' = [family EXCEPT ![n] = n]
    /\ parent' = [parent EXCEPT ![n] = NoToken]

Replaced(t, n) ==
    /\ status[t] = "live" /\ status[n] = "absent"
    /\ status' = [status EXCEPT ![t] = "revoked", ![n] = "live"]
    /\ family' = [family EXCEPT ![n] = family[t]]
    /\ parent' = [parent EXCEPT ![n] = t]

Revoked(K) ==
    /\ \A t \in K : status[t] = "live"
    /\ status' = [t \in Tokens |-> IF t \in K THEN "revoked" ELSE status[t]]
    /\ UNCHANGED <<family, parent>>

LEMMA RowChanges ==
  ASSUME TypeOK, LockDiscipline, [Next]_vars
  PROVE  \/ UNCHANGED <<status, family, parent>>
         \/ \E n \in Tokens : Opened(n)
         \/ \E t, n \in Tokens : Replaced(t, n)
         \/ \E K \in SUBSET Tokens : Revoked(K)
<1>1. ASSUME NEW p \in Procs, NEW n \in Tokens, LoginIssue(p, n) PROVE Opened(n)
  BY <1>1 DEF LoginIssue, Fresh, Insert, Opened
<1>2. ASSUME NEW p \in Procs, NEW n \in Tokens, Rotate(p, n)
      PROVE  tx[p].token \in Tokens /\ Replaced(tx[p].token, n)
  BY <1>2 DEF Rotate, Fresh, Insert, Replaced, LockDiscipline, LockDisciplineOf
<1>3. ASSUME NEW p \in Procs, Commit(p)
      PROVE  tx[p].kills \in SUBSET Tokens /\ Revoked(tx[p].kills)
  BY <1>3, RequestType DEF Commit, Revoked, LockDiscipline, LockDisciplineOf
<1>4. ASSUME NEW p \in Procs, NEW t \in Tokens, RefreshExpired(p, t) PROVE Revoked({t})
  BY <1>4 DEF RefreshExpired, Revoked, TypeOK
<1>5. ASSUME NEW p \in Procs, NEW u \in Users,
             LoginVerify(p, u) \/ ChangePassword(p, u) \/ ChangeMfa(p, u) \/ Deactivate(p, u)
      PROVE  UNCHANGED <<status, family, parent>>
  BY <1>5 DEF LoginVerify, ChangePassword, ChangeMfa, Deactivate, rows
<1>6. ASSUME NEW p \in Procs, NEW t \in Tokens,
             RefreshRevoked(p, t) \/ RefreshLive(p, t) \/ Logout(p, t) \/ RevokeRow(p, t)
      PROVE  UNCHANGED <<status, family, parent>>
  BY <1>6 DEF RefreshRevoked, RefreshLive, Logout, RevokeRow, rows
<1>7. ASSUME NEW p \in Procs, RefreshReadUser(p) \/ LockUser(p) \/ Scan(p) \/ Abort(p)
      PROVE  UNCHANGED <<status, family, parent>>
  BY <1>7 DEF RefreshReadUser, LockUser, Scan, Abort, rows
<1>8. ASSUME \/ \E u \in Users : Activate(u)
             \/ \E t \in Tokens : Expire(t)
             \/ UNCHANGED vars
      PROVE  UNCHANGED <<status, family, parent>>
  BY <1>8 DEF Activate, Expire, vars, rows
<1> QED
  BY <1>1, <1>2, <1>3, <1>4, <1>5, <1>6, <1>7, <1>8 DEF Next, Begin, Proceed

LEMMA RowsNext ==
  ASSUME TypeOK, LockDiscipline, RowsWellFormed, AtMostOneLive, SingleSuccessor, [Next]_vars
  PROVE  RowsWellFormed' /\ AtMostOneLive' /\ SingleSuccessor'
<1> USE DEF TypeOK, RowsWellFormed, AtMostOneLive, SingleSuccessor
<1>1. CASE UNCHANGED <<status, family, parent>>
  BY <1>1
<1>2. ASSUME NEW n \in Tokens, Opened(n)
      PROVE  RowsWellFormed' /\ AtMostOneLive' /\ SingleSuccessor'
  BY <1>2 DEF Opened
<1>3. ASSUME NEW t \in Tokens, NEW n \in Tokens, Replaced(t, n)
      PROVE  RowsWellFormed' /\ AtMostOneLive' /\ SingleSuccessor'
  <2>1. RowsWellFormed'
    BY <1>3 DEF Replaced
  <2>2. AtMostOneLive'
    BY <1>3 DEF Replaced
  <2>3. SingleSuccessor'
    BY <1>3 DEF Replaced
  <2> QED
    BY <2>1, <2>2, <2>3
<1>4. ASSUME NEW K \in SUBSET Tokens, Revoked(K)
      PROVE  RowsWellFormed' /\ AtMostOneLive' /\ SingleSuccessor'
  BY <1>4 DEF Revoked
<1> QED
  BY <1>1, <1>2, <1>3, <1>4, RowChanges

-----------------------------------------------------------------------------
LEMMA InvInit == Init => Inv
<1> SUFFICES ASSUME Init PROVE Inv
  OBVIOUS
<1>1. TypeOK
  BY TypeInit
<1>2. LockDiscipline
  BY DEF Init, NoTx, LockDiscipline, LockDisciplineOf
<1>3. RowsWellFormed /\ AtMostOneLive /\ SingleSuccessor
  BY DEF Init, RowsWellFormed, AtMostOneLive, SingleSuccessor
<1> QED
  BY <1>1, <1>2, <1>3 DEF Inv

LEMMA InvNext == Inv /\ [Next]_vars => Inv'
  BY TypeNext, DisciplineNext, RowsNext DEF Inv

\* The inductive invariant holds in every behaviour.
THEOREM Invariance == Spec => []Inv
  BY InvInit, InvNext, PTL DEF Spec

\* Every variable keeps its type.
THEOREM TypeCorrect == Spec => []TypeOK
<1>1. Inv => TypeOK
  BY DEF Inv
<1> QED
  BY <1>1, Invariance, PTL

\* A family has at most one live session, for any number of concurrent
\* requests.
THEOREM OneLiveSession == Spec => []AtMostOneLive
<1>1. Inv => AtMostOneLive
  BY DEF Inv
<1> QED
  BY <1>1, Invariance, PTL

\* No refresh token is redeemed twice.
THEOREM RedeemedOnce == Spec => []SingleSuccessor
<1>1. Inv => SingleSuccessor
  BY DEF Inv
<1> QED
  BY <1>1, Invariance, PTL

\* A family without a live session never gets one again.
THEOREM DeadStaysDead == Spec => DeadFamilyStaysDead
<1> DEFINE Step == \A f \in Tokens :
         /\ status[f] # "absent"
         /\ \A t \in Tokens : family[t] = f => status[t] # "live"
         => \A t \in Tokens : family'[t] = f => status'[t] # "live"
<1>1. ASSUME Inv, [Next]_vars PROVE Step
  <2> USE DEF Inv, TypeOK, RowsWellFormed
  <2>1. CASE UNCHANGED <<status, family, parent>>
    BY <2>1
  <2>2. ASSUME NEW n \in Tokens, Opened(n) PROVE Step
    BY <1>1, <2>2 DEF Opened
  <2>3. ASSUME NEW t \in Tokens, NEW n \in Tokens, Replaced(t, n) PROVE Step
    BY <1>1, <2>3 DEF Replaced
  <2>4. ASSUME NEW K \in SUBSET Tokens, Revoked(K) PROVE Step
    BY <1>1, <2>4 DEF Revoked
  <2> QED
    BY <1>1, <2>1, <2>2, <2>3, <2>4, RowChanges
<1> QED
  BY <1>1, Invariance, PTL DEF Spec, DeadFamilyStaysDead

\* Logout with the current token closes the family.
THEOREM LogoutEnds == Spec => CurrentTokenLogoutEndsFamily
<1> DEFINE Step == \A p \in Procs :
         /\ Commit(p)
         /\ tx[p].op \in FamilyOps
         /\ status[tx[p].token] = "live"
         => \A t \in Tokens : family[t] = family[tx[p].token] => status'[t] # "live"
<1>1. ASSUME Inv PROVE Step
  <2> SUFFICES ASSUME NEW p \in Procs, Commit(p), tx[p].op \in FamilyOps,
                      status[tx[p].token] = "live", NEW t \in Tokens,
                      family[t] = family[tx[p].token]
               PROVE  status'[t] # "live"
    OBVIOUS
  <2>1. tx[p].token \in tx[p].kills
    BY <1>1 DEF Commit, Inv, LockDiscipline, LockDisciplineOf
  <2>2. CASE t = tx[p].token
    BY <2>1, <2>2 DEF Commit
  <2>3. CASE t # tx[p].token
    <3>1. tx[p].token \in Tokens
      BY <1>1 DEF Inv, LockDiscipline, LockDisciplineOf
    <3>2. status[t] # "live"
      BY <1>1, <2>3, <3>1 DEF Inv, AtMostOneLive
    <3> QED
      BY <3>2 DEF Commit
  <2> QED
    BY <2>2, <2>3
<1> QED
  BY <1>1, Invariance, PTL DEF Spec, CurrentTokenLogoutEndsFamily

\* A committed bulk UPDATE has revoked its whole snapshot.
THEOREM RevokesSnapshot == Spec => SnapshotRevoked
<1> DEFINE Step == \A p \in Procs : Commit(p) => \A t \in tx[p].scan : status'[t] = "revoked"
<1>1. ASSUME Inv PROVE Step
  BY <1>1, RequestType DEF Commit, Inv, LockDiscipline, LockDisciplineOf
<1> QED
  BY <1>1, Invariance, PTL DEF Spec, SnapshotRevoked

-----------------------------------------------------------------------------
(* Requests served one at a time.                                          *)

HIDE NoProcAssumption DEF Ops, FamilyOps, UserOps, PCs

OneConnection == \A p, q \in Procs : p = q

\* From the snapshot of the bulk UPDATE to its commit, no session of the scope
\* becomes live: the snapshot holds every one that is.
SnapshotIsComplete ==
    \A p \in Procs : tx[p].pc \in {"rows", "commit"} =>
        \A t \in Scope(p) : status[t] = "live" => t \in tx[p].scan

\* A request that is not past its snapshot owes nothing.
LEMMA NotScanned ==
  ASSUME OneConnection, NEW p \in Procs, tx'[p].pc \notin {"rows", "commit"}
  PROVE  SnapshotIsComplete'
  BY DEF OneConnection, SnapshotIsComplete

\* A step that leaves the rows, and the request but for its visits, as they were.
LEMMA StillScanned ==
  ASSUME OneConnection, SnapshotIsComplete, NEW p \in Procs, UNCHANGED rows,
         tx'[p].op = tx[p].op, tx'[p].token = tx[p].token, tx'[p].user = tx[p].user,
         tx'[p].scan = tx[p].scan, tx[p].pc \in {"rows", "commit"}
  PROVE  SnapshotIsComplete'
<1>1. Scope(p)' = Scope(p)
  BY DEF Scope, rows
<1>2. \A t \in Scope(p)' : status'[t] = "live" => t \in tx'[p].scan
  BY <1>1 DEF SnapshotIsComplete, rows
<1>3. ASSUME NEW q \in Procs PROVE q = p
  BY DEF OneConnection
<1> QED
  BY <1>2, <1>3 DEF SnapshotIsComplete

LEMMA SnapshotInit == Init => SnapshotIsComplete
  BY DEF Init, NoTx, SnapshotIsComplete

LEMMA SnapshotNext ==
  ASSUME OneConnection, Inv, SnapshotIsComplete, [Next]_vars
  PROVE  SnapshotIsComplete'
<1> TypeOK /\ tx \in [Procs -> Requests]
  BY DEF Inv, TypeOK
<1>1. ASSUME NEW p \in Procs, NEW u \in Users,
             LoginVerify(p, u) \/ ChangePassword(p, u) \/ ChangeMfa(p, u) \/ Deactivate(p, u)
      PROVE  SnapshotIsComplete'
  <2>1. tx'[p].pc \notin {"rows", "commit"}
    BY <1>1, StartFields DEF LoginVerify, ChangePassword, ChangeMfa, Deactivate
  <2> QED
    BY <2>1, NotScanned
<1>2. ASSUME NEW p \in Procs, NEW t \in Tokens,
             RefreshRevoked(p, t) \/ RefreshLive(p, t) \/ Logout(p, t)
      PROVE  SnapshotIsComplete'
  <2>1. tx'[p].pc \notin {"rows", "commit"}
    BY <1>2, StartFields DEF RefreshRevoked, RefreshLive, Logout
  <2> QED
    BY <2>1, NotScanned
<1>3. ASSUME NEW p \in Procs, NEW t \in Tokens, RefreshExpired(p, t)
      PROVE  SnapshotIsComplete'
  <2>1. tx'[p].pc \notin {"rows", "commit"}
    BY <1>3 DEF RefreshExpired
  <2> QED
    BY <2>1, NotScanned
<1>4. ASSUME NEW p \in Procs, End(p) PROVE SnapshotIsComplete'
  <2>1. tx'[p].pc \notin {"rows", "commit"}
    BY <1>4 DEF End, NoTx
  <2> QED
    BY <2>1, NotScanned
<1>5. ASSUME NEW p \in Procs, RefreshReadUser(p) PROVE SnapshotIsComplete'
  <2>1. tx'[p].pc \notin {"rows", "commit"}
    BY <1>5, RequestType DEF RefreshReadUser, GoTo, Requests
  <2> QED
    BY <2>1, NotScanned
<1>6. ASSUME NEW p \in Procs, LockUser(p) PROVE SnapshotIsComplete'
  <2>1. CASE GoTo(p, "scan")
    <3>1. tx'[p].pc \notin {"rows", "commit"}
      BY <2>1, RequestType DEF GoTo, Requests
    <3> QED
      BY <3>1, NotScanned
  <2>2. CASE GoTo(p, "commit") /\ tx[p].pc = "rows"
    <3>1. /\ tx'[p].op = tx[p].op /\ tx'[p].token = tx[p].token
          /\ tx'[p].user = tx[p].user /\ tx'[p].scan = tx[p].scan
      BY <2>2, RequestType DEF GoTo, Requests
    <3> QED
      BY <1>6, <2>2, <3>1, StillScanned DEF LockUser
  <2> QED
    BY <1>6, <2>1, <2>2 DEF LockUser
<1>7. ASSUME NEW p \in Procs, Scan(p) PROVE SnapshotIsComplete'
  <2>1. /\ tx'[p].op = tx[p].op /\ tx'[p].token = tx[p].token /\ tx'[p].user = tx[p].user
        /\ tx'[p].scan = {t \in Scope(p) : status[t] = "live"}
    BY <1>7, RequestType DEF Scan, Requests
  <2>2. Scope(p)' = Scope(p)
    BY <1>7, <2>1 DEF Scan, Scope, rows
  <2>3. \A t \in Scope(p)' : status'[t] = "live" => t \in tx'[p].scan
    BY <1>7, <2>1, <2>2 DEF Scan, rows
  <2>4. ASSUME NEW q \in Procs PROVE q = p
    BY DEF OneConnection
  <2> QED
    BY <2>3, <2>4 DEF SnapshotIsComplete
<1>8. ASSUME NEW p \in Procs, NEW t \in Tokens, RevokeRow(p, t) PROVE SnapshotIsComplete'
  <2>1. PICK K : Visit(p, t, K)
    BY <1>8 DEF RevokeRow
  <2>2. /\ tx'[p].op = tx[p].op /\ tx'[p].token = tx[p].token
        /\ tx'[p].user = tx[p].user /\ tx'[p].scan = tx[p].scan
    BY <2>1, RequestType DEF Visit, Requests
  <2> QED
    BY <1>8, <2>2, StillScanned DEF RevokeRow
<1>9. ASSUME UNCHANGED <<status, family, owner, tx>> PROVE SnapshotIsComplete'
  BY <1>9 DEF SnapshotIsComplete, Scope
<1> QED
  BY <1>1, <1>2, <1>3, <1>4, <1>5, <1>6, <1>7, <1>8, <1>9
  DEF Next, Begin, Proceed, LoginIssue, Rotate, Commit, Abort, Activate, Expire, vars, rows

\* Over one connection, with requests, failures and expiries in any order, a
\* revocation leaves no live session in its scope: the sessions the run
\* refresh_revocation sees escape can only come from a request running beside.
THEOREM AloneRevocationIsComplete ==
  ASSUME OneConnection
  PROVE  Spec => RevocationLeavesNoneLive
<1> DEFINE Step == \A p \in Procs : Commit(p) =>
         \A t \in Tokens :
            IF tx[p].op \in UserOps THEN owner[t] = tx[p].user => status'[t] # "live"
            ELSE tx[p].op = "refresh" /\ family[t] = family[tx[p].token] => status'[t] # "live"
<1>1. Inv /\ SnapshotIsComplete => Step
  <2> SUFFICES ASSUME Inv, SnapshotIsComplete, NEW p \in Procs, Commit(p),
                      NEW t \in Scope(p), tx[p].op \in UserOps \/ tx[p].op = "refresh"
               PROVE  status'[t] # "live"
    BY DEF Scope, UserOps, FamilyOps
  <2>1. t \in Tokens /\ status \in [Tokens -> {"absent", "live", "revoked"}]
    BY DEF Scope, Inv, TypeOK
  <2>2. tx[p].pc \in {"rows", "commit"} /\ tx[p].todo = {}
    BY DEF Commit, Inv, LockDiscipline, LockDisciplineOf
  <2>3. CASE status[t] = "live"
    <3>1. t \in tx[p].scan
      BY <2>2, <2>3 DEF SnapshotIsComplete
    <3>2. t \in tx[p].kills
      BY <2>2, <2>3, <3>1 DEF Inv, LockDiscipline, LockDisciplineOf
    <3> QED
      BY <2>1, <3>2 DEF Commit
  <2>4. CASE status[t] # "live"
    BY <2>1, <2>4 DEF Commit
  <2> QED
    BY <2>3, <2>4
<1>2. Inv /\ SnapshotIsComplete /\ [Next]_vars => SnapshotIsComplete'
  BY SnapshotNext
<1> QED
  BY <1>1, <1>2, SnapshotInit, Invariance, PTL DEF Spec, RevocationLeavesNoneLive

-----------------------------------------------------------------------------
(* The concurrent store of refresh sessions implements TokenFamilies.      *)

\* The head of a family is its live row, if it has one.
HeadIsLive ==
    /\ AbstractHead \in [Tokens -> Tokens \cup {NoToken}]
    /\ \A f, t \in Tokens : AbstractHead[f] = t <=> family[t] = f /\ status[t] = "live"
    /\ \A f \in Tokens :
          AbstractHead[f] = NoToken <=> \A t \in Tokens : family[t] = f => status[t] # "live"

LEMMA Heads == TypeOK /\ AtMostOneLive => HeadIsLive
<1> SUFFICES ASSUME TypeOK, AtMostOneLive, NEW f \in Tokens
    PROVE  /\ AbstractHead[f] \in Tokens \cup {NoToken}
           /\ \A t \in Tokens : AbstractHead[f] = t <=> family[t] = f /\ status[t] = "live"
           /\ AbstractHead[f] = NoToken <=> \A t \in Tokens : family[t] = f => status[t] # "live"
  BY DEF HeadIsLive, AbstractHead
<1>0. \A t \in Tokens : t \in Live(f) <=> family[t] = f /\ status[t] = "live"
  BY DEF Live
<1>1. CASE Live(f) = {}
  <2>1. AbstractHead[f] = NoToken
    BY <1>1 DEF AbstractHead
  <2> QED
    BY <1>0, <1>1, <2>1
<1>2. CASE Live(f) # {}
  <2>1. AbstractHead[f] \in Live(f)
    BY <1>2 DEF AbstractHead
  <2>2. Live(f) \subseteq Tokens
    BY DEF Live
  <2>3. \A s, t \in Live(f) : s = t
    BY <1>0, <2>2 DEF AtMostOneLive
  <2> QED
    BY <1>0, <2>1, <2>2, <2>3
<1> QED
  BY <1>1, <1>2

LEMMA HeadsPrimed == TypeOK' /\ AtMostOneLive' => HeadIsLive'
  BY Heads, PTL

LEMMA RefinementInit == Init => Families!Init
  BY DEF Init, Families!Init, AbstractHead, AbstractSpent, Live

LEMMA RefinementNext ==
  ASSUME Inv, Inv', [Next]_vars
  PROVE  [Families!Next]_Families!vars
<1> USE DEF Inv
<1>0. HeadIsLive /\ HeadIsLive'
  BY Heads, HeadsPrimed
<1>1. CASE UNCHANGED <<status, family, parent>>
  BY <1>1 DEF Families!vars, AbstractHead, AbstractSpent, Live
<1>2. ASSUME NEW n \in Tokens, Opened(n) PROVE Families!Open(n)
  <2>1. Families!Unused(n)
    BY <1>0, <1>2 DEF Opened, HeadIsLive, Families!Unused, AbstractSpent
  <2>2. AbstractHead' = [AbstractHead EXCEPT ![n] = n]
    <3>1. ASSUME NEW f \in Tokens
          PROVE  AbstractHead'[f] = [AbstractHead EXCEPT ![n] = n][f]
      BY <1>0, <1>2 DEF Opened, HeadIsLive, TypeOK, RowsWellFormed
    <3> QED
      BY <1>0, <3>1 DEF HeadIsLive
  <2>3. UNCHANGED AbstractSpent
    BY <1>2 DEF Opened, AbstractSpent, TypeOK
  <2> QED
    BY <2>1, <2>2, <2>3 DEF Families!Open
<1>3. ASSUME NEW t \in Tokens, NEW n \in Tokens, Replaced(t, n)
      PROVE  family[t] \in Tokens /\ Families!Replace(family[t], n)
  <2>1. family[t] \in Tokens /\ AbstractHead[family[t]] = t
    BY <1>0, <1>3 DEF Replaced, HeadIsLive, RowsWellFormed
  <2>2. Families!Unused(n)
    BY <1>0, <1>3 DEF Replaced, HeadIsLive, Families!Unused, AbstractSpent
  <2>3. AbstractHead' = [AbstractHead EXCEPT ![family[t]] = n]
    <3>1. ASSUME NEW f \in Tokens
          PROVE  AbstractHead'[f] = [AbstractHead EXCEPT ![family[t]] = n][f]
      BY <1>0, <1>3, <2>1 DEF Replaced, HeadIsLive, TypeOK
    <3> QED
      BY <1>0, <2>1, <3>1 DEF HeadIsLive
  <2>4. AbstractSpent' = AbstractSpent \cup {t}
    BY <1>3 DEF Replaced, AbstractSpent, TypeOK
  <2> QED
    BY <2>1, <2>2, <2>3, <2>4 DEF Families!Replace
<1>4. ASSUME NEW K \in SUBSET Tokens, Revoked(K), K # {}
      PROVE  \E F \in (SUBSET Tokens) \ {{}} : Families!Close(F)
  <2> DEFINE F == {family[t] : t \in K}
  <2>1. F \in (SUBSET Tokens) \ {{}}
    <3>1. \A t \in K : t \in Tokens /\ family[t] \in Tokens
      BY <1>4 DEF Revoked, RowsWellFormed
    <3>2. \E t : t \in K
      BY <1>4
    <3> QED
      BY <3>1, <3>2
  <2>2. \A t \in K : AbstractHead[family[t]] = t
    BY <1>0, <1>4, <2>1 DEF Revoked, HeadIsLive
  <2>3. AbstractHead' = [f \in Tokens |-> IF f \in F THEN NoToken ELSE AbstractHead[f]]
    <3>1. ASSUME NEW f \in Tokens
          PROVE  AbstractHead'[f] = IF f \in F THEN NoToken ELSE AbstractHead[f]
      <4>1. CASE f \in F
        BY <1>0, <1>4, <2>2, <4>1 DEF Revoked, HeadIsLive, AtMostOneLive, TypeOK
      <4>2. CASE f \notin F
        BY <1>0, <1>4, <4>2 DEF Revoked, HeadIsLive, TypeOK
      <4> QED
        BY <4>1, <4>2
    <3> QED
      BY <1>0, <3>1 DEF HeadIsLive
  <2>4. {AbstractHead[f] : f \in F} = K
    BY <2>2
  <2>5. AbstractSpent' = AbstractSpent \cup {AbstractHead[f] : f \in F}
    BY <1>4, <2>4 DEF Revoked, AbstractSpent, TypeOK
  <2>6. \A f \in F : AbstractHead[f] # NoToken
    BY <1>4, <2>2
  <2>7. Families!Close(F)
    BY <2>3, <2>5, <2>6 DEF Families!Close
  <2> QED
    BY <2>1, <2>7
<1>5. ASSUME Revoked({}) PROVE UNCHANGED <<status, family, parent>>
  BY <1>5 DEF Revoked, TypeOK
<1> QED
  BY <1>1, <1>2, <1>3, <1>4, <1>5, RowChanges DEF Families!Next, Families!vars

\* Every behaviour of the concurrent store, seen through its committed rows, is
\* a behaviour of abstract rotation.
THEOREM Implements == Spec => ImplementsFamilies
  BY RefinementInit, RefinementNext, Invariance, InvNext, PTL
  DEF Spec, ImplementsFamilies, Families!Spec
=============================================================================
