------------------------------- MODULE Routes -------------------------------
(***************************************************************************)
(* The three lists of the way of a call agree.  They are text the code     *)
(* writes down, without a parameter: that they agree is one closed fact,   *)
(* which TLC evaluates in full and the proofs about calls start from.      *)
(***************************************************************************)
EXTENDS Gateway

\* Every call of a service has one of the methods that are told apart, a file of
\* app/api that exports the method and lets the path through, and the endpoint it
\* means as the first that fits.
RoutesAgree ==
    \A c \in Calls :
        /\ c.template.method \in Mutating \cup {"GET"}
        /\ \E f \in Serving(c.path) : c.template.method \in f.methods
        /\ \E f \in Serving(c.path) : Allowed(f, c.path)
        /\ Endpoint(c.template.method, c.path) = {c.template}

ASSUME RoutesAssumption == RoutesAgree
=============================================================================
