--------------------------- MODULE MCSalesRecords ---------------------------
EXTENDS SalesRecords, Naturals, FiniteSets, TLC

CONSTANT MaxLoad

\* Ids of one kind are interchangeable.
Symmetry == UNION {Permutations(S) : S \in {Orgs, Companies, Contacts, Pipelines,
                                            Stages, Deals, Leads, Handlers}}

GoneOf(rows) == Cardinality({x \in DOMAIN rows : rows[x] = Gone})

\* Two saves that write the same row, or the deletion of a company and a save of
\* a deal.
Compete(ops) ==
    \/ "deleteCompany" \in ops /\ ops \cap {"createDeal", "updateDeal"} # {}
    \/ ops \subseteq {"updateDeal"}
    \/ ops \subseteq {"updateLead", "convertLead"}

\* Bound: rows deleted in one behaviour, and the saves that overlap.  A second
\* save counts as MaxLoad deletions: a save meets deletions or another save.
LightLoad ==
    LET gone == GoneOf(company) + GoneOf(contact) + GoneOf(pipeline)
                  + GoneOf(stage) + GoneOf(deal) + GoneOf(lead)
        busy == {h \in Handlers : tx[h] # Idle}
    IN  /\ gone + (IF Cardinality(busy) > 1 THEN MaxLoad ELSE 0) <= MaxLoad
        /\ Cardinality(busy) > 1 => Compete({tx[h].op : h \in busy})
=============================================================================
