-------------------------- MODULE RefreshRefinement --------------------------
(***************************************************************************)
(* The refresh-session store implements TokenFamilies: the head of a       *)
(* family is its one live row, the spent tokens are the revoked rows.      *)
(***************************************************************************)
EXTENDS RefreshSessions

Live(f) == {t \in Tokens : family[t] = f /\ status[t] = "live"}

AbstractHead == [f \in Tokens |-> IF Live(f) = {} THEN NoToken ELSE CHOOSE t \in Live(f) : TRUE]
AbstractSpent == {t \in Tokens : status[t] = "revoked"}

Families == INSTANCE TokenFamilies WITH head <- AbstractHead, spent <- AbstractSpent

\* Every behaviour of the concurrent store, seen through its committed rows,
\* is a behaviour of the abstract rotation: a commit opens a family, replaces
\* a head or closes families, and every other step is invisible.
ImplementsFamilies == Families!Spec
=============================================================================
