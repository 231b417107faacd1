---------------------------- MODULE MCBffSession ----------------------------
EXTENDS BffSession, TLC

\* Tokens and slots are interchangeable: no action and no safety property
\* tells one from another.
Symmetry == Permutations(Tokens) \cup Permutations(Slots)
=============================================================================
