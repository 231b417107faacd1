---------------------------- MODULE TokenFamilies ----------------------------
(***************************************************************************)
(* What refresh-token rotation promises, without requests, locks or        *)
(* transactions: a family has at most one current token, its head; a token *)
(* that was ever replaced or revoked is spent and never current again.     *)
(* RefreshSessions implements this specification.                          *)
(***************************************************************************)
CONSTANTS Tokens, NoToken

VARIABLES
    head,   \* head[f]: the current token of the family that f opened, if any
    spent   \* tokens that can no longer be redeemed

vars == <<head, spent>>

Init ==
    /\ head = [f \in Tokens |-> NoToken]
    /\ spent = {}

Unused(n) == n \notin spent /\ \A f \in Tokens : head[f] # n

\* A login opens a family.
Open(n) ==
    /\ Unused(n)
    /\ head' = [head EXCEPT ![n] = n]
    /\ UNCHANGED spent

\* A refresh replaces the current token.
Replace(f, n) ==
    /\ head[f] # NoToken
    /\ Unused(n)
    /\ head' = [head EXCEPT ![f] = n]
    /\ spent' = spent \cup {head[f]}

\* A revocation closes some families, for good.
Close(F) ==
    /\ \A f \in F : head[f] # NoToken
    /\ head' = [f \in Tokens |-> IF f \in F THEN NoToken ELSE head[f]]
    /\ spent' = spent \cup {head[f] : f \in F}

Next ==
    \/ \E n \in Tokens : Open(n)
    \/ \E f, n \in Tokens : Replace(f, n)
    \/ \E F \in (SUBSET Tokens) \ {{}} : Close(F)

Spec == Init /\ [][Next]_vars

-----------------------------------------------------------------------------
(* Properties, which every implementation inherits. *)

\* A current token is current in one family only, the one it opened or one whose
\* opening token is spent, and it is not spent.
HeadsAreCurrent ==
    \A f \in Tokens : head[f] # NoToken =>
        /\ head[f] \notin spent
        /\ head[f] = f \/ f \in spent
        /\ \A g \in Tokens : head[g] = head[f] => g = f

\* A spent token is never current again, and a family that was opened and closed
\* is never opened again: no order of logins, refreshes and revocations brings a
\* session back.
ClosedForGood ==
    [][\A f \in Tokens : f \in spent =>
         /\ f \in spent' /\ \A g \in Tokens : head'[g] # f
         /\ head[f] = NoToken => head'[f] = NoToken]_vars
=============================================================================
