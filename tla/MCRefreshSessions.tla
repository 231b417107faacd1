-------------------------- MODULE MCRefreshSessions --------------------------
(* Model-checking instance of RefreshSessions and its refinement. *)
EXTENDS RefreshRefinement, TLC

\* Tokens, connections and users are interchangeable in every action and
\* safety property.
Symmetry == Permutations(Tokens) \cup Permutations(Procs) \cup Permutations(Users)
=============================================================================
