------------------------ MODULE SalesRecords_proofs ------------------------
(***************************************************************************)
(* For any sets of organizations, records and handlers: no tenant sees     *)
(* another's records, however saves overlap; and while requests come one   *)
(* at a time, what a save has checked still holds when it commits.         *)
(***************************************************************************)
EXTENDS SalesRecords, TLAPS

\* Why: a save in flight refers to rows of its organization too, or to rows
\* deleted since, which the foreign keys refuse.
CompanySafe(c, o) == c \notin {None, Keep} => CompanyIn(c, o) \/ company[c] = Gone
ContactSafe(k, o) == k \notin {None, Keep} => ContactIn(k, o) \/ contact[k] = Gone
PipelineSafe(p, o) == p # Keep => PipelineIn(p, o) \/ pipeline[p] = Gone
StageSafe(s, o) == s # Keep => StageIn(s, o) \/ stage[s] = Gone

DealSafe(r, o) ==
    /\ CompanySafe(r.company, o) /\ ContactSafe(r.contact, o)
    /\ PipelineSafe(r.pipeline, o) /\ StageSafe(r.stage, o)
LeadSafe(r, o) == CompanySafe(r.company, o) /\ ContactSafe(r.contact, o)

SavesSafe ==
    \A h \in Handlers :
        LET t == tx[h]
        IN  /\ t.op \in {"createDeal", "convertLead"} => DealSafe(t.row, t.row.org)
            /\ t.op = "createLead" => LeadSafe(t.row, t.row.org)
            /\ t.op = "updateDeal" => /\ deal[t.deal] # Unborn
                                      /\ Exists(deal[t.deal]) => DealSafe(t.change, deal[t.deal].org)
            /\ t.op = "updateLead" => /\ lead[t.lead] # Unborn
                                      /\ Exists(lead[t.lead]) => LeadSafe(t.change, lead[t.lead].org)

\* Children go with their parents.
ParentsThere ==
    /\ \A k \in Contacts : Exists(contact[k]) => Exists(company[contact[k]])
    /\ \A s \in Stages : Exists(stage[s]) => Exists(pipeline[stage[s]])

Inv == TypeOK /\ ParentsThere /\ TenantIsolation /\ SavesSafe

USE MarksAssumption

-----------------------------------------------------------------------------
(* Types. *)

LEMMA SaveTypes ==
  ASSUME TypeOK, NEW h \in Handlers
  PROVE  /\ tx[h].op \in {"createDeal", "convertLead"} => tx[h].row \in DealRows
         /\ tx[h].op = "createLead" => tx[h].row \in LeadRows
         /\ tx[h].op = "updateDeal" => tx[h].deal \in Deals /\ tx[h].change \in DealChanges
         /\ tx[h].op = "updateLead" => tx[h].lead \in Leads /\ tx[h].change \in LeadChanges
         /\ tx[h].op = "convertLead" => tx[h].lead \in Leads
         /\ tx[h].op = "deleteCompany" => tx[h].company \in Companies
  BY DEF TypeOK, Saves, Idle

\* Deals and leads keep their other columns when contacts go.
LEMMA WithoutContactsDeals ==
  ASSUME TypeOK, NEW K
  PROVE  WithoutContacts(deal, K) \in [Deals -> Row(DealRows)]
  BY DEF TypeOK, WithoutContacts, Row, Exists, DealRows

LEMMA WithoutContactsLeads ==
  ASSUME TypeOK, NEW K
  PROVE  WithoutContacts(lead, K) \in [Leads -> Row(LeadRows)]
  BY DEF TypeOK, WithoutContacts, Row, Exists, LeadRows

LEMMA WithoutContactsDeal ==
  ASSUME TypeOK, NEW K, NEW d \in Deals
  PROVE  LET new == WithoutContacts(deal, K)[d]
         IN  /\ Exists(deal[d]) <=> Exists(new)
             /\ ~Exists(deal[d]) => new = deal[d]
             /\ Exists(deal[d]) => /\ new \in DealRows
                                   /\ new.org = deal[d].org /\ new.company = deal[d].company
                                   /\ new.pipeline = deal[d].pipeline /\ new.stage = deal[d].stage
                                   /\ new.contact # None =>
                                        new.contact = deal[d].contact /\ deal[d].contact \notin K
<1>1. CASE Exists(deal[d]) /\ deal[d].contact \in K
  <2> DEFINE r == deal[d]
  <2>1. r \in DealRows
    BY <1>1 DEF TypeOK, Row, Exists
  <2>2. /\ [r EXCEPT !.contact = None] \in DealRows
        /\ [r EXCEPT !.contact = None].org = r.org
        /\ [r EXCEPT !.contact = None].company = r.company
        /\ [r EXCEPT !.contact = None].pipeline = r.pipeline
        /\ [r EXCEPT !.contact = None].stage = r.stage
        /\ [r EXCEPT !.contact = None].contact = None
    BY <2>1 DEF DealRows
  <2>3. WithoutContacts(deal, K)[d] = [r EXCEPT !.contact = None]
    BY <1>1 DEF TypeOK, WithoutContacts
  <2> QED
    BY <1>1, <2>2, <2>3 DEF Exists
<1>2. CASE ~(Exists(deal[d]) /\ deal[d].contact \in K)
  <2>1. WithoutContacts(deal, K)[d] = deal[d]
    BY <1>2 DEF TypeOK, WithoutContacts
  <2> QED
    BY <1>2, <2>1 DEF TypeOK, Row, Exists
<1> QED
  BY <1>1, <1>2

LEMMA WithoutContactsLead ==
  ASSUME TypeOK, NEW K, NEW l \in Leads
  PROVE  LET new == WithoutContacts(lead, K)[l]
         IN  /\ Exists(lead[l]) <=> Exists(new)
             /\ ~Exists(lead[l]) => new = lead[l]
             /\ Exists(lead[l]) => /\ new \in LeadRows
                                   /\ new.org = lead[l].org /\ new.company = lead[l].company
                                   /\ new.contact # None =>
                                        new.contact = lead[l].contact /\ lead[l].contact \notin K
<1>1. CASE Exists(lead[l]) /\ lead[l].contact \in K
  <2> DEFINE r == lead[l]
  <2>1. r \in LeadRows
    BY <1>1 DEF TypeOK, Row, Exists
  <2>2. /\ [r EXCEPT !.contact = None] \in LeadRows
        /\ [r EXCEPT !.contact = None].org = r.org
        /\ [r EXCEPT !.contact = None].company = r.company
        /\ [r EXCEPT !.contact = None].contact = None
    BY <2>1 DEF LeadRows
  <2>3. WithoutContacts(lead, K)[l] = [r EXCEPT !.contact = None]
    BY <1>1 DEF TypeOK, WithoutContacts
  <2> QED
    BY <1>1, <2>2, <2>3 DEF Exists
<1>2. CASE ~(Exists(lead[l]) /\ lead[l].contact \in K)
  <2>1. WithoutContacts(lead, K)[l] = lead[l]
    BY <1>2 DEF TypeOK, WithoutContacts
  <2> QED
    BY <1>2, <2>1 DEF TypeOK, Row, Exists
<1> QED
  BY <1>1, <1>2

\* Starting a save, and ending one, change the handler's entry only.
LEMMA StartType ==
  ASSUME TypeOK, NEW h \in Handlers, NEW save \in Saves, Start(h, save)
  PROVE  TypeOK'
  BY DEF TypeOK, Start

LEMMA EndType ==
  ASSUME TypeOK, NEW h \in Handlers, tx' = [tx EXCEPT ![h] = Idle]
  PROVE  tx' \in [Handlers -> Saves \cup {Idle}]
  BY DEF TypeOK

LEMMA UpdatedDealType ==
  ASSUME TypeOK, NEW d \in Deals, Exists(deal[d]), NEW change \in DealChanges
  PROVE  [org |-> deal[d].org,
          company |-> After(change.company, deal[d].company),
          contact |-> After(change.contact, deal[d].contact),
          pipeline |-> After(change.pipeline, deal[d].pipeline),
          stage |-> After(change.stage, deal[d].stage)] \in DealRows
<1>1. deal[d] \in DealRows
  BY DEF TypeOK, Row, Exists
<1> QED
  BY <1>1 DEF DealRows, DealChanges, After

LEMMA UpdatedLeadType ==
  ASSUME TypeOK, NEW l \in Leads, Exists(lead[l]), NEW change \in LeadChanges
  PROVE  [org |-> lead[l].org,
          company |-> After(change.company, lead[l].company),
          contact |-> After(change.contact, lead[l].contact),
          status |-> After(change.status, lead[l].status)] \in LeadRows
<1>1. lead[l] \in LeadRows
  BY DEF TypeOK, Row, Exists
<1> QED
  BY <1>1 DEF LeadRows, LeadChanges, After

LEMMA ConvertedLeadType ==
  ASSUME TypeOK, NEW l \in Leads, Exists(lead[l])
  PROVE  [lead[l] EXCEPT !.status = "closed"] \in LeadRows
<1> DEFINE r == lead[l]
<1>1. r \in LeadRows
  BY DEF TypeOK, Row, Exists
<1> HIDE DEF r
<1>2. [r EXCEPT !.status = "closed"] \in LeadRows
  BY <1>1 DEF LeadRows, Statuses
<1> QED
  BY <1>2 DEF r

LEMMA LeadWithoutCompanyType ==
  ASSUME NEW r \in LeadRows
  PROVE  [r EXCEPT !.company = None] \in LeadRows
  BY DEF LeadRows

LEMMA TypeStep ==
  ASSUME TypeOK, [Next]_vars
  PROVE  TypeOK'
<1>1. ASSUME NEW c \in Companies, NEW o \in Orgs, CreateCompany(c, o)
      PROVE  TypeOK'
  BY <1>1 DEF TypeOK, Row, CreateCompany
<1>2. ASSUME NEW c \in Companies, NEW k \in Contacts, CreateContact(k, c) \/ MoveContact(k, c)
      PROVE  TypeOK'
  BY <1>2 DEF TypeOK, Row, CreateContact, MoveContact
<1>3. ASSUME NEW h \in Handlers, NEW c \in Companies, BeginDeleteCompany(h, c)
      PROVE  TypeOK'
  BY <1>3, StartType DEF BeginDeleteCompany, Saves
<1>4. ASSUME NEW k \in Contacts, DeleteContact(k)
      PROVE  TypeOK'
  <2>1. deal' \in [Deals -> Row(DealRows)] /\ lead' \in [Leads -> Row(LeadRows)]
    BY <1>4, WithoutContactsDeals, WithoutContactsLeads DEF DeleteContact
  <2> QED
    BY <1>4, <2>1 DEF TypeOK, Row, DeleteContact
<1>5. ASSUME NEW p \in Pipelines, NEW o \in Orgs, CreatePipeline(p, o)
      PROVE  TypeOK'
  BY <1>5 DEF TypeOK, Row, CreatePipeline
<1>6. ASSUME NEW p \in Pipelines, NEW s \in Stages, CreateStage(s, p)
      PROVE  TypeOK'
  BY <1>6 DEF TypeOK, Row, CreateStage
<1>7. ASSUME NEW p \in Pipelines, DeletePipeline(p)
      PROVE  TypeOK'
  BY <1>7 DEF TypeOK, Row, DeletePipeline
<1>8. ASSUME NEW s \in Stages, DeleteStage(s)
      PROVE  TypeOK'
  BY <1>8 DEF TypeOK, Row, DeleteStage
<1>9. ASSUME NEW d \in Deals, DeleteDeal(d)
      PROVE  TypeOK'
  BY <1>9 DEF TypeOK, Row, DeleteDeal
<1>10. ASSUME NEW l \in Leads, DeleteLead(l)
       PROVE  TypeOK'
  BY <1>10 DEF TypeOK, Row, DeleteLead
<1>11. ASSUME NEW h \in Handlers, DeleteCompany(h)
       PROVE  TypeOK'
  <2> DEFINE c == tx[h].company
             K == {k \in Contacts : contact[k] = c}
             rows == WithoutContacts(lead, K)
  <2>1. deal' \in [Deals -> Row(DealRows)]
    BY <1>11, WithoutContactsDeals DEF DeleteCompany
  <2>2. rows \in [Leads -> Row(LeadRows)]
    BY WithoutContactsLeads
  <2>3. \A l \in Leads : l \in LiveLeads => rows[l] \in LeadRows
    BY WithoutContactsLead DEF LiveLeads
  <2>4. lead' \in [Leads -> Row(LeadRows)]
    <3>1. lead' = [l \in Leads |-> IF l \in LiveLeads /\ rows[l].company = c
                                   THEN [rows[l] EXCEPT !.company = None] ELSE rows[l]]
      BY <1>11 DEF DeleteCompany
    <3> HIDE DEF rows, c
    <3>2. \A l \in Leads : l \in LiveLeads => [rows[l] EXCEPT !.company = None] \in Row(LeadRows)
      BY <2>3, LeadWithoutCompanyType DEF Row
    <3> QED
      BY <2>2, <3>1, <3>2
  <2>5. /\ company' = [company EXCEPT ![c] = Gone]
        /\ contact' = [k \in Contacts |-> IF k \in K THEN Gone ELSE contact[k]]
        /\ tx' = [tx EXCEPT ![h] = Idle]
        /\ UNCHANGED <<pipeline, stage, sequential>>
    BY <1>11 DEF DeleteCompany
  <2> QED
    BY <2>1, <2>4, <2>5, EndType DEF TypeOK, Row
<1>12. ASSUME NEW h \in Handlers, UpdateDeal(h)
       PROVE  TypeOK'
  <2>1. tx[h].deal \in Deals /\ tx[h].change \in DealChanges /\ Exists(deal[tx[h].deal])
    BY <1>12, SaveTypes DEF UpdateDeal
  <2>2. deal' \in [Deals -> Row(DealRows)]
    BY <1>12, <2>1, UpdatedDealType DEF UpdateDeal, TypeOK, Row
  <2> QED
    BY <1>12, <2>2, EndType DEF TypeOK, UpdateDeal
<1>13. ASSUME NEW h \in Handlers, UpdateLead(h)
       PROVE  TypeOK'
  <2>1. tx[h].lead \in Leads /\ tx[h].change \in LeadChanges /\ Exists(lead[tx[h].lead])
    BY <1>13, SaveTypes DEF UpdateLead
  <2>2. lead' \in [Leads -> Row(LeadRows)]
    BY <1>13, <2>1, UpdatedLeadType DEF UpdateLead, TypeOK, Row
  <2> QED
    BY <1>13, <2>2, EndType DEF TypeOK, UpdateLead
<1>14. ASSUME NEW h \in Handlers, Rollback(h)
       PROVE  TypeOK'
  BY <1>14, EndType DEF TypeOK, Rollback
<1>15. ASSUME NEW h \in Handlers, NEW r \in DealRows, BeginCreateDeal(h, r)
       PROVE  TypeOK'
  BY <1>15, StartType DEF BeginCreateDeal, Saves
<1>16. ASSUME NEW h \in Handlers, NEW d \in Deals, NEW r \in DealRows, BeginUpdateDeal(h, d, r)
       PROVE  TypeOK'
  <2>1. [company |-> Changed(r.company, deal[d].company),
         contact |-> Changed(r.contact, deal[d].contact),
         pipeline |-> Changed(r.pipeline, deal[d].pipeline),
         stage |-> Changed(r.stage, deal[d].stage)] \in DealChanges
    BY DEF DealRows, DealChanges, Changed
  <2> QED
    BY <1>16, <2>1, StartType DEF BeginUpdateDeal, Saves
<1>17. ASSUME NEW h \in Handlers, NEW r \in LeadRows, BeginCreateLead(h, r)
       PROVE  TypeOK'
  BY <1>17, StartType DEF BeginCreateLead, Saves
<1>18. ASSUME NEW h \in Handlers, NEW l \in Leads, NEW r \in LeadRows, BeginUpdateLead(h, l, r)
       PROVE  TypeOK'
  <2>1. [company |-> Changed(r.company, lead[l].company),
         contact |-> Changed(r.contact, lead[l].contact),
         status |-> Changed(r.status, lead[l].status)] \in LeadChanges
    BY DEF LeadRows, LeadChanges, Changed
  <2> QED
    BY <1>18, <2>1, StartType DEF BeginUpdateLead, Saves
<1>19. ASSUME NEW h \in Handlers, NEW d \in Deals, CreateDeal(h, d)
       PROVE  TypeOK'
  <2>1. tx[h].row \in DealRows
    BY <1>19, SaveTypes DEF CreateDeal
  <2> QED
    BY <1>19, <2>1, EndType DEF TypeOK, Row, CreateDeal
<1>20. ASSUME NEW h \in Handlers, NEW d \in Deals, ConvertLead(h, d)
       PROVE  TypeOK'
  <2>1. tx[h].row \in DealRows /\ tx[h].lead \in Leads /\ Exists(lead[tx[h].lead])
    BY <1>20, SaveTypes DEF ConvertLead
  <2>2. deal' \in [Deals -> Row(DealRows)]
    BY <1>20, <2>1 DEF TypeOK, Row, ConvertLead
  <2>3. lead' \in [Leads -> Row(LeadRows)]
    BY <1>20, <2>1, ConvertedLeadType DEF TypeOK, Row, ConvertLead
  <2> QED
    BY <1>20, <2>2, <2>3, EndType DEF TypeOK, ConvertLead
<1>21. ASSUME NEW h \in Handlers, NEW l \in Leads, CreateLead(h, l)
       PROVE  TypeOK'
  <2>1. tx[h].row \in LeadRows
    BY <1>21, SaveTypes DEF CreateLead
  <2> QED
    BY <1>21, <2>1, EndType DEF TypeOK, Row, CreateLead
<1>22. ASSUME NEW h \in Handlers, NEW l \in Leads, NEW p \in Pipelines, NEW s \in Stages,
              BeginConvertLead(h, l, p, s)
       PROVE  TypeOK'
  <2>1. lead[l] \in LeadRows /\ lead[l].company \in Companies
    BY <1>22 DEF BeginConvertLead, TypeOK, Row, Exists, LeadRows
  <2>2. DealOf(l, p, s) \in DealRows
    BY <2>1 DEF DealOf, DealRows, LeadRows
  <2> QED
    BY <1>22, <2>2, StartType DEF BeginConvertLead, Saves
<1>23. CASE UNCHANGED vars
  BY <1>23 DEF TypeOK, vars
<1> QED
  BY <1>1, <1>2, <1>3, <1>4, <1>5, <1>6, <1>7, <1>8, <1>9, <1>10, <1>11, <1>12, <1>13, <1>14,
     <1>15, <1>16, <1>17, <1>18, <1>19, <1>20, <1>21, <1>22, <1>23 DEF Next

-----------------------------------------------------------------------------
(* What steps leave alone. *)

References == <<company, contact, pipeline, stage>>
Rows == <<company, contact, pipeline, stage, deal, lead, sequential>>

\* A save that starts, or is given up, writes nothing.
LEMMA StartsKeepRows ==
  ASSUME NEW h \in Handlers
  PROVE  /\ Rollback(h) => UNCHANGED Rows
         /\ \A c \in Companies : BeginDeleteCompany(h, c) => UNCHANGED Rows
         /\ \A r \in DealRows : BeginCreateDeal(h, r) => UNCHANGED Rows
         /\ \A d \in Deals, r \in DealRows : BeginUpdateDeal(h, d, r) => UNCHANGED Rows
         /\ \A r \in LeadRows : BeginCreateLead(h, r) => UNCHANGED Rows
         /\ \A l \in Leads, r \in LeadRows : BeginUpdateLead(h, l, r) => UNCHANGED Rows
         /\ \A l \in Leads, p \in Pipelines, s \in Stages :
               BeginConvertLead(h, l, p, s) => UNCHANGED Rows
<1>1. \A save : Start(h, save) => UNCHANGED Rows
  BY DEF Start, Rows
<1>2. Rollback(h) => UNCHANGED Rows
  BY DEF Rollback, Rows
<1>3. \A c \in Companies : BeginDeleteCompany(h, c) => UNCHANGED Rows
  BY <1>1 DEF BeginDeleteCompany
<1>4. \A r \in DealRows : BeginCreateDeal(h, r) => UNCHANGED Rows
  BY <1>1 DEF BeginCreateDeal
<1>5. \A d \in Deals, r \in DealRows : BeginUpdateDeal(h, d, r) => UNCHANGED Rows
  BY <1>1 DEF BeginUpdateDeal
<1>6. \A r \in LeadRows : BeginCreateLead(h, r) => UNCHANGED Rows
  BY <1>1 DEF BeginCreateLead
<1>7. \A l \in Leads, r \in LeadRows : BeginUpdateLead(h, l, r) => UNCHANGED Rows
  BY <1>1 DEF BeginUpdateLead
<1>8. \A l \in Leads, p \in Pipelines, s \in Stages : BeginConvertLead(h, l, p, s) => UNCHANGED Rows
  BY <1>1 DEF BeginConvertLead
<1> QED
  BY <1>2, <1>3, <1>4, <1>5, <1>6, <1>7, <1>8

\* A save of a deal or a lead leaves what it refers to alone.
LEMMA SavesKeepReferences ==
  /\ \A d \in Deals : DeleteDeal(d) => UNCHANGED <<References, sequential>>
  /\ \A l \in Leads : DeleteLead(l) => UNCHANGED <<References, sequential>>
  /\ \A h \in Handlers : UpdateDeal(h) \/ UpdateLead(h) => UNCHANGED <<References, sequential>>
  /\ \A h \in Handlers, d \in Deals :
        CreateDeal(h, d) \/ ConvertLead(h, d) => UNCHANGED <<References, sequential>>
  /\ \A h \in Handlers, l \in Leads : CreateLead(h, l) => UNCHANGED <<References, sequential>>
<1>1. \A d \in Deals : DeleteDeal(d) => UNCHANGED <<References, sequential>>
  BY DEF DeleteDeal, References
<1>2. \A l \in Leads : DeleteLead(l) => UNCHANGED <<References, sequential>>
  BY DEF DeleteLead, References
<1>3. \A h \in Handlers : UpdateDeal(h) => UNCHANGED <<References, sequential>>
  BY DEF UpdateDeal, References
<1>4. \A h \in Handlers : UpdateLead(h) => UNCHANGED <<References, sequential>>
  BY DEF UpdateLead, References
<1>5. \A h \in Handlers, d \in Deals : CreateDeal(h, d) => UNCHANGED <<References, sequential>>
  BY DEF CreateDeal, References
<1>6. \A h \in Handlers, d \in Deals : ConvertLead(h, d) => UNCHANGED <<References, sequential>>
  BY DEF ConvertLead, References
<1>7. \A h \in Handlers, l \in Leads : CreateLead(h, l) => UNCHANGED <<References, sequential>>
  BY DEF CreateLead, References
<1> QED
  BY <1>1, <1>2, <1>3, <1>4, <1>5, <1>6, <1>7

\* The steps on companies, contacts, pipelines and stages are few.
LEMMA ReferenceSteps ==
  ASSUME [Next]_vars
  PROVE  \/ UNCHANGED <<References, sequential>>
         \/ \E c \in Companies : \/ \E o \in Orgs : CreateCompany(c, o)
                                 \/ \E k \in Contacts : CreateContact(k, c) \/ MoveContact(k, c)
         \/ \E k \in Contacts : DeleteContact(k)
         \/ \E p \in Pipelines : \/ \E o \in Orgs : CreatePipeline(p, o)
                                 \/ \E s \in Stages : CreateStage(s, p)
                                 \/ DeletePipeline(p)
         \/ \E s \in Stages : DeleteStage(s)
         \/ \E h \in Handlers : DeleteCompany(h)
<1>1. CASE UNCHANGED vars
  BY <1>1 DEF vars, References
<1>2. UNCHANGED Rows => UNCHANGED <<References, sequential>>
  BY DEF Rows, References
<1> QED
  BY <1>1, <1>2, StartsKeepRows, SavesKeepReferences DEF Next

LEMMA SequentialIsFixed ==
  ASSUME [Next]_vars
  PROVE  UNCHANGED sequential
  BY ReferenceSteps DEF CreateCompany, CreateContact, MoveContact, DeleteContact, CreatePipeline,
     CreateStage, DeletePipeline, DeleteStage, DeleteCompany

-----------------------------------------------------------------------------
(* References. *)

\* What a save in flight has looked up keeps its organization until it is gone.
SafeStays ==
    \A o \in Orgs :
        /\ \A c \in Companies : CompanySafe(c, o) => CompanySafe(c, o)'
        /\ \A k \in Contacts : ContactSafe(k, o) => ContactSafe(k, o)'
        /\ \A p \in Pipelines : PipelineSafe(p, o) => PipelineSafe(p, o)'
        /\ \A s \in Stages : StageSafe(s, o) => StageSafe(s, o)'

LEMMA SameReferences ==
  ASSUME ParentsThere, UNCHANGED References
  PROVE  ParentsThere' /\ SafeStays
  BY DEF References, ParentsThere, SafeStays, CompanySafe, ContactSafe, PipelineSafe, StageSafe,
         CompanyIn, ContactIn, PipelineIn, StageIn, Exists

LEMMA ReferenceStep ==
  ASSUME TypeOK, ParentsThere, [Next]_vars
  PROVE  ParentsThere' /\ SafeStays
<1> USE DEF TypeOK, Row, ParentsThere, SafeStays, CompanySafe, ContactSafe, PipelineSafe, StageSafe,
            CompanyIn, ContactIn, PipelineIn, StageIn, Exists
<1>1. ASSUME NEW c \in Companies, NEW o \in Orgs, CreateCompany(c, o)
      PROVE  ParentsThere' /\ SafeStays
  BY <1>1 DEF CreateCompany
<1>2. ASSUME NEW c \in Companies, NEW k \in Contacts, CreateContact(k, c)
      PROVE  ParentsThere' /\ SafeStays
  BY <1>2 DEF CreateContact
<1>3. ASSUME NEW c \in Companies, NEW k \in Contacts, MoveContact(k, c)
      PROVE  ParentsThere' /\ SafeStays
  BY <1>3 DEF MoveContact
<1>4. ASSUME NEW k \in Contacts, DeleteContact(k)
      PROVE  ParentsThere' /\ SafeStays
  BY <1>4 DEF DeleteContact
<1>5. ASSUME NEW p \in Pipelines, NEW o \in Orgs, CreatePipeline(p, o)
      PROVE  ParentsThere' /\ SafeStays
  BY <1>5 DEF CreatePipeline
<1>6. ASSUME NEW p \in Pipelines, NEW s \in Stages, CreateStage(s, p)
      PROVE  ParentsThere' /\ SafeStays
  BY <1>6 DEF CreateStage
<1>7. ASSUME NEW p \in Pipelines, DeletePipeline(p)
      PROVE  ParentsThere' /\ SafeStays
  BY <1>7 DEF DeletePipeline
<1>8. ASSUME NEW s \in Stages, DeleteStage(s)
      PROVE  ParentsThere' /\ SafeStays
  BY <1>8 DEF DeleteStage
<1>9. ASSUME NEW h \in Handlers, DeleteCompany(h)
      PROVE  ParentsThere' /\ SafeStays
  <2>1. tx[h].company \in Companies
    BY <1>9, SaveTypes DEF DeleteCompany
  <2>2. PICK c \in Companies :
          /\ company' = [company EXCEPT ![c] = Gone]
          /\ contact' = [k \in Contacts |-> IF contact[k] = c THEN Gone ELSE contact[k]]
          /\ UNCHANGED <<pipeline, stage>>
    BY <1>9, <2>1 DEF DeleteCompany
  <2> QED
    BY <2>2
<1>10. CASE UNCHANGED References
  BY <1>10, SameReferences
<1> HIDE DEF TypeOK, Row, ParentsThere, SafeStays, CompanySafe, ContactSafe, PipelineSafe, StageSafe,
             CompanyIn, ContactIn, PipelineIn, StageIn, Exists
<1> QED
  BY <1>1, <1>2, <1>3, <1>4, <1>5, <1>6, <1>7, <1>8, <1>9, <1>10, ReferenceSteps

-----------------------------------------------------------------------------
(* Rows. *)

DealIn(r) ==
    /\ CompanyIn(r.company, r.org)
    /\ r.contact # None => ContactIn(r.contact, r.org)
    /\ PipelineIn(r.pipeline, r.org)
    /\ StageIn(r.stage, r.org)
LeadIn(r) ==
    /\ r.company # None => CompanyIn(r.company, r.org)
    /\ r.contact # None => ContactIn(r.contact, r.org)

\* A row keeps its organization, and an id is never used again.
RowsStay ==
    /\ \A d \in Deals : deal[d] # Unborn =>
         /\ deal'[d] # Unborn
         /\ Exists(deal'[d]) => Exists(deal[d]) /\ deal'[d].org = deal[d].org
    /\ \A l \in Leads : lead[l] # Unborn =>
         /\ lead'[l] # Unborn
         /\ Exists(lead'[l]) => Exists(lead[l]) /\ lead'[l].org = lead[l].org

LEMMA RowStep ==
  ASSUME TypeOK, TypeOK', [Next]_vars
  PROVE  RowsStay
<1>1. CASE UNCHANGED <<deal, lead>>
  BY <1>1 DEF RowsStay
<1>2. ASSUME NEW k \in Contacts, DeleteContact(k)
      PROVE  RowsStay
  <2>1. deal' = WithoutContacts(deal, {k}) /\ lead' = WithoutContacts(lead, {k})
    BY <1>2 DEF DeleteContact
  <2> QED
    BY <2>1, WithoutContactsDeal, WithoutContactsLead DEF RowsStay, Exists
<1>3. ASSUME NEW h \in Handlers, DeleteCompany(h)
      PROVE  RowsStay
  <2> DEFINE c == tx[h].company
             K == {k \in Contacts : contact[k] = c}
             rows == WithoutContacts(lead, K)
  <2>1. /\ deal' = WithoutContacts(deal, K)
        /\ lead' = [l \in Leads |-> IF l \in LiveLeads /\ rows[l].company = c
                                   THEN [rows[l] EXCEPT !.company = None] ELSE rows[l]]
    BY <1>3 DEF DeleteCompany
  <2>2. \A d \in Deals : deal[d] # Unborn =>
         /\ deal'[d] # Unborn
         /\ Exists(deal'[d]) => Exists(deal[d]) /\ deal'[d].org = deal[d].org
    BY <2>1, WithoutContactsDeal DEF Exists
  <2>3. ASSUME NEW l \in Leads, lead[l] # Unborn
        PROVE  /\ lead'[l] # Unborn
               /\ Exists(lead'[l]) => Exists(lead[l]) /\ lead'[l].org = lead[l].org
    <3>1. CASE Exists(lead[l])
      <4>1. rows[l] \in LeadRows /\ rows[l].org = lead[l].org
        BY <3>1, WithoutContactsLead
      <4>2. lead'[l] \in {rows[l], [rows[l] EXCEPT !.company = None]}
        BY <2>1
      <4> HIDE DEF rows
      <4>3. /\ [rows[l] EXCEPT !.company = None] \in LeadRows
            /\ [rows[l] EXCEPT !.company = None].org = rows[l].org
        BY <4>1 DEF LeadRows
      <4> QED
        BY <3>1, <4>1, <4>2, <4>3
    <3>2. CASE ~Exists(lead[l])
      <4>1. rows[l] = lead[l]
        BY <3>2, WithoutContactsLead
      <4>2. lead'[l] = rows[l]
        BY <2>1, <3>2 DEF LiveLeads
      <4> QED
        BY <2>3, <3>2, <4>1, <4>2
    <3> QED
      BY <3>1, <3>2
  <2> QED
    BY <2>2, <2>3 DEF RowsStay
<1>4. ASSUME NEW h \in Handlers, UpdateDeal(h)
      PROVE  RowsStay
  <2> DEFINE x == tx[h].deal
             change == tx[h].change
             r == [org |-> deal[x].org,
                   company |-> After(change.company, deal[x].company),
                   contact |-> After(change.contact, deal[x].contact),
                   pipeline |-> After(change.pipeline, deal[x].pipeline),
                   stage |-> After(change.stage, deal[x].stage)]
  <2>1. x \in Deals /\ change \in DealChanges /\ Exists(deal[x])
    BY <1>4, SaveTypes DEF UpdateDeal
  <2>2. r \in DealRows /\ r.org = deal[x].org
    BY <2>1, UpdatedDealType
  <2>3. deal' = [deal EXCEPT ![x] = r] /\ UNCHANGED lead
    BY <1>4 DEF UpdateDeal
  <2> HIDE DEF r, x, change
  <2> QED
    BY <2>1, <2>2, <2>3 DEF RowsStay, TypeOK
<1>5. ASSUME NEW h \in Handlers, UpdateLead(h)
      PROVE  RowsStay
  <2> DEFINE x == tx[h].lead
             change == tx[h].change
             r == [org |-> lead[x].org,
                   company |-> After(change.company, lead[x].company),
                   contact |-> After(change.contact, lead[x].contact),
                   status |-> After(change.status, lead[x].status)]
  <2>1. x \in Leads /\ change \in LeadChanges /\ Exists(lead[x])
    BY <1>5, SaveTypes DEF UpdateLead
  <2>2. r \in LeadRows /\ r.org = lead[x].org
    BY <2>1, UpdatedLeadType
  <2>3. lead' = [lead EXCEPT ![x] = r] /\ UNCHANGED deal
    BY <1>5 DEF UpdateLead
  <2> HIDE DEF r, x, change
  <2> QED
    BY <2>1, <2>2, <2>3 DEF RowsStay, TypeOK
<1>6. ASSUME NEW d \in Deals, DeleteDeal(d)
      PROVE  RowsStay
  BY <1>6 DEF DeleteDeal, RowsStay, TypeOK, Exists
<1>7. ASSUME NEW l \in Leads, DeleteLead(l)
      PROVE  RowsStay
  BY <1>7 DEF DeleteLead, RowsStay, TypeOK, Exists
<1>8. ASSUME NEW h \in Handlers, NEW d \in Deals, CreateDeal(h, d)
      PROVE  RowsStay
  BY <1>8 DEF CreateDeal, RowsStay, TypeOK, Exists
<1>9. ASSUME NEW h \in Handlers, NEW l \in Leads, CreateLead(h, l)
      PROVE  RowsStay
  BY <1>9 DEF CreateLead, RowsStay, TypeOK, Exists
<1>10. ASSUME NEW h \in Handlers, NEW d \in Deals, ConvertLead(h, d)
       PROVE  RowsStay
  <2>1. PICK l \in Leads :
          /\ Exists(lead[l])
          /\ lead' = [lead EXCEPT ![l] = [lead[l] EXCEPT !.status = "closed"]]
    BY <1>10, SaveTypes DEF ConvertLead
  <2> DEFINE r == lead[l]
  <2>2. r \in LeadRows
    BY <2>1 DEF TypeOK, Row, Exists
  <2> HIDE DEF r
  <2>3. [r EXCEPT !.status = "closed"] \in LeadRows /\ [r EXCEPT !.status = "closed"].org = r.org
    BY <2>2 DEF LeadRows, Statuses
  <2>4. lead' = [lead EXCEPT ![l] = [r EXCEPT !.status = "closed"]]
    BY <2>1 DEF r
  <2>5. \A x \in Leads : lead[x] # Unborn =>
          /\ lead'[x] # Unborn
          /\ Exists(lead'[x]) => Exists(lead[x]) /\ lead'[x].org = lead[x].org
    <3> TAKE x \in Leads
    <3>1. CASE x = l
      <4>1. lead'[x] = [r EXCEPT !.status = "closed"]
        BY <2>4, <3>1 DEF TypeOK
      <4> QED
        BY <2>1, <2>3, <3>1, <4>1 DEF r
    <3>2. CASE x # l
      BY <2>4, <3>2 DEF TypeOK
    <3> QED
      BY <3>1, <3>2
  <2>6. \A d1 \in Deals : deal[d1] # Unborn => deal'[d1] = deal[d1]
    BY <1>10 DEF ConvertLead, TypeOK
  <2> QED
    BY <2>5, <2>6 DEF RowsStay
<1> QED
  BY <1>1, <1>2, <1>3, <1>4, <1>5, <1>6, <1>7, <1>8, <1>9, <1>10,
     StartsKeepRows
     DEF Next, vars, Rows, CreateCompany, CreateContact, MoveContact, CreatePipeline, CreateStage,
         DeletePipeline, DeleteStage

-----------------------------------------------------------------------------
(* Saves in flight. *)

\* What one save in flight must meet.
SaveSafe(t) ==
    /\ t.op \in {"createDeal", "convertLead"} => DealSafe(t.row, t.row.org)
    /\ t.op = "createLead" => LeadSafe(t.row, t.row.org)
    /\ t.op = "updateDeal" => /\ deal[t.deal] # Unborn
                              /\ Exists(deal[t.deal]) => DealSafe(t.change, deal[t.deal].org)
    /\ t.op = "updateLead" => /\ lead[t.lead] # Unborn
                              /\ Exists(lead[t.lead]) => LeadSafe(t.change, lead[t.lead].org)

LEMMA SaveStays ==
  ASSUME TypeOK, TypeOK', SafeStays, RowsStay, NEW h \in Handlers,
         tx'[h] = tx[h], SaveSafe(tx[h])
  PROVE  SaveSafe(tx[h])'
<1> USE DEF SafeStays
<1>1. tx[h].op \in {"createDeal", "convertLead"} => DealSafe(tx[h].row, tx[h].row.org)'
  <2> HAVE tx[h].op \in {"createDeal", "convertLead"}
  <2>1. tx[h].row \in DealRows
    BY SaveTypes
  <2>2. DealSafe(tx[h].row, tx[h].row.org)
    BY DEF SaveSafe
  <2> QED
    BY <2>1, <2>2 DEF DealSafe, DealRows, CompanySafe, ContactSafe, PipelineSafe, StageSafe
<1>2. tx[h].op = "createLead" => LeadSafe(tx[h].row, tx[h].row.org)'
  <2> HAVE tx[h].op = "createLead"
  <2>1. tx[h].row \in LeadRows
    BY SaveTypes
  <2>2. LeadSafe(tx[h].row, tx[h].row.org)
    BY DEF SaveSafe
  <2> QED
    BY <2>1, <2>2 DEF LeadSafe, LeadRows, CompanySafe, ContactSafe
<1>3. tx[h].op = "updateDeal" =>
        /\ deal'[tx[h].deal] # Unborn
        /\ Exists(deal'[tx[h].deal]) => DealSafe(tx[h].change, deal[tx[h].deal].org)'
  <2> HAVE tx[h].op = "updateDeal"
  <2> DEFINE d == tx[h].deal
  <2>1. d \in Deals /\ tx[h].change \in DealChanges
    BY SaveTypes
  <2>2. /\ deal[d] # Unborn
        /\ Exists(deal[d]) => DealSafe(tx[h].change, deal[d].org) /\ deal[d].org \in Orgs
    BY <2>1 DEF SaveSafe, TypeOK, Row, Exists, DealRows
  <2>3. /\ deal'[d] # Unborn
        /\ Exists(deal'[d]) => Exists(deal[d]) /\ deal'[d].org = deal[d].org
    BY <2>1, <2>2 DEF RowsStay
  <2> QED
    BY <2>1, <2>2, <2>3
       DEF DealSafe, DealChanges, CompanySafe, ContactSafe, PipelineSafe, StageSafe
<1>4. tx[h].op = "updateLead" =>
        /\ lead'[tx[h].lead] # Unborn
        /\ Exists(lead'[tx[h].lead]) => LeadSafe(tx[h].change, lead[tx[h].lead].org)'
  <2> HAVE tx[h].op = "updateLead"
  <2> DEFINE l == tx[h].lead
  <2>1. l \in Leads /\ tx[h].change \in LeadChanges
    BY SaveTypes
  <2>2. /\ lead[l] # Unborn
        /\ Exists(lead[l]) => LeadSafe(tx[h].change, lead[l].org) /\ lead[l].org \in Orgs
    BY <2>1 DEF SaveSafe, TypeOK, Row, Exists, LeadRows
  <2>3. /\ lead'[l] # Unborn
        /\ Exists(lead'[l]) => Exists(lead[l]) /\ lead'[l].org = lead[l].org
    BY <2>1, <2>2 DEF RowsStay
  <2> QED
    BY <2>1, <2>2, <2>3 DEF LeadSafe, LeadChanges, CompanySafe, ContactSafe
<1> QED
  BY <1>1, <1>2, <1>3, <1>4 DEF SaveSafe

\* References that were checked are safe.
LEMMA CheckedDeal ==
  ASSUME TypeOK, NEW r \in DealRows, DealReferences(r)
  PROVE  DealSafe(r, r.org)
<1>1. r.org \in Orgs /\ r.company \in Companies /\ r.contact \in Contacts \cup {None}
      /\ r.pipeline \in Pipelines /\ r.stage \in Stages
  BY DEF DealRows
<1> QED
  BY <1>1 DEF DealReferences, DealSafe, CompanySafe, ContactSafe, PipelineSafe, StageSafe,
              CompanyIn, ContactIn, PipelineIn, StageIn, Exists

LEMMA CheckedLead ==
  ASSUME TypeOK, NEW r \in LeadRows, LeadReferences(r)
  PROVE  LeadSafe(r, r.org)
  BY DEF LeadReferences, LeadSafe, CompanySafe, ContactSafe, CompanyIn, ContactIn

LEMMA SaveStep ==
  ASSUME TypeOK, TypeOK', SavesSafe, SafeStays, RowsStay, [Next]_vars
  PROVE  SavesSafe'
<1> SUFFICES ASSUME NEW h \in Handlers
             PROVE  SaveSafe(tx[h])'
  BY DEF SavesSafe, SaveSafe
<1>1. SaveSafe(tx[h])
  BY DEF SavesSafe, SaveSafe
<1>2. CASE tx'[h] = tx[h]
  BY <1>1, <1>2, SaveStays
<1>3. CASE tx'[h] = Idle
  BY <1>3 DEF SaveSafe, Idle
<1>4. ASSUME NEW c \in Companies, BeginDeleteCompany(h, c)
      PROVE  SaveSafe(tx[h])'
  BY <1>4 DEF BeginDeleteCompany, Start, SaveSafe, TypeOK
<1>5. ASSUME NEW r \in DealRows, BeginCreateDeal(h, r)
      PROVE  SaveSafe(tx[h])'
  <2>1. tx'[h] = [op |-> "createDeal", row |-> r]
    BY <1>5 DEF BeginCreateDeal, Start, TypeOK
  <2>2. UNCHANGED References
    BY <1>5 DEF BeginCreateDeal, Start, References
  <2>3. DealSafe(r, r.org)
    BY <1>5, CheckedDeal DEF BeginCreateDeal
  <2> QED
    BY <2>1, <2>2, <2>3 DEF SaveSafe, References, DealSafe, CompanySafe, ContactSafe,
       PipelineSafe, StageSafe, CompanyIn, ContactIn, PipelineIn, StageIn
<1>6. ASSUME NEW d \in Deals, NEW r \in DealRows, BeginUpdateDeal(h, d, r)
      PROVE  SaveSafe(tx[h])'
  <2> DEFINE change == [company |-> Changed(r.company, deal[d].company),
                        contact |-> Changed(r.contact, deal[d].contact),
                        pipeline |-> Changed(r.pipeline, deal[d].pipeline),
                        stage |-> Changed(r.stage, deal[d].stage)]
  <2>1. tx'[h] = [op |-> "updateDeal", deal |-> d, change |-> change]
    BY <1>6 DEF BeginUpdateDeal, Start, TypeOK
  <2>2. UNCHANGED References /\ deal' = deal
    BY <1>6 DEF BeginUpdateDeal, Start, References
  <2>3. Exists(deal[d]) /\ deal[d].org = r.org /\ DealSafe(r, r.org)
    BY <1>6, CheckedDeal DEF BeginUpdateDeal
  <2>4. DealSafe(change, deal[d].org)
    <3>1. change.company \in {r.company, Keep} /\ change.contact \in {r.contact, Keep}
          /\ change.pipeline \in {r.pipeline, Keep} /\ change.stage \in {r.stage, Keep}
      BY DEF Changed
    <3> QED
      BY <2>3, <3>1 DEF DealSafe, CompanySafe, ContactSafe, PipelineSafe, StageSafe
  <2> HIDE DEF change
  <2> QED
    BY <2>1, <2>2, <2>3, <2>4 DEF SaveSafe, References, DealSafe, CompanySafe, ContactSafe,
       PipelineSafe, StageSafe, CompanyIn, ContactIn, PipelineIn, StageIn, Exists
<1>7. ASSUME NEW r \in LeadRows, BeginCreateLead(h, r)
      PROVE  SaveSafe(tx[h])'
  <2>1. tx'[h] = [op |-> "createLead", row |-> r]
    BY <1>7 DEF BeginCreateLead, Start, TypeOK
  <2>2. UNCHANGED References
    BY <1>7 DEF BeginCreateLead, Start, References
  <2>3. LeadSafe(r, r.org)
    BY <1>7, CheckedLead DEF BeginCreateLead
  <2> QED
    BY <2>1, <2>2, <2>3 DEF SaveSafe, References, LeadSafe, CompanySafe, ContactSafe,
       CompanyIn, ContactIn
<1>8. ASSUME NEW l \in Leads, NEW r \in LeadRows, BeginUpdateLead(h, l, r)
      PROVE  SaveSafe(tx[h])'
  <2> DEFINE change == [company |-> Changed(r.company, lead[l].company),
                        contact |-> Changed(r.contact, lead[l].contact),
                        status |-> Changed(r.status, lead[l].status)]
  <2>1. tx'[h] = [op |-> "updateLead", lead |-> l, change |-> change]
    BY <1>8 DEF BeginUpdateLead, Start, TypeOK
  <2>2. UNCHANGED References /\ lead' = lead
    BY <1>8 DEF BeginUpdateLead, Start, References
  <2>3. Exists(lead[l]) /\ lead[l].org = r.org /\ LeadSafe(r, r.org)
    BY <1>8, CheckedLead DEF BeginUpdateLead
  <2>4. LeadSafe(change, lead[l].org)
    <3>1. change.company \in {r.company, Keep} /\ change.contact \in {r.contact, Keep}
      BY DEF Changed
    <3> QED
      BY <2>3, <3>1 DEF LeadSafe, CompanySafe, ContactSafe
  <2> HIDE DEF change
  <2> QED
    BY <2>1, <2>2, <2>3, <2>4 DEF SaveSafe, References, LeadSafe, CompanySafe, ContactSafe,
       CompanyIn, ContactIn, Exists
<1>9. ASSUME NEW l \in Leads, NEW p \in Pipelines, NEW s \in Stages, BeginConvertLead(h, l, p, s)
      PROVE  SaveSafe(tx[h])'
  <2> DEFINE r == DealOf(l, p, s)
  <2>1. tx'[h] = [op |-> "convertLead", lead |-> l, row |-> r]
    BY <1>9 DEF BeginConvertLead, Start, TypeOK
  <2>2. UNCHANGED References
    BY <1>9 DEF BeginConvertLead, Start, References
  <2>3. lead[l] \in LeadRows /\ lead[l].company \in Companies
    BY <1>9 DEF BeginConvertLead, TypeOK, Row, Exists, LeadRows
  <2>4. r \in DealRows
    BY <2>3 DEF DealOf, DealRows, LeadRows
  <2>5. DealSafe(r, r.org)
    BY <1>9, <2>4, CheckedDeal DEF BeginConvertLead
  <2> HIDE DEF r
  <2> QED
    BY <2>1, <2>2, <2>5 DEF SaveSafe, References, DealSafe, CompanySafe, ContactSafe,
       PipelineSafe, StageSafe, CompanyIn, ContactIn, PipelineIn, StageIn
<1>10. ASSUME NEW g \in Handlers, NEW save, Start(g, save), g # h
       PROVE  SaveSafe(tx[h])'
  BY <1>2, <1>10 DEF Start, TypeOK
<1>11. CASE UNCHANGED tx \/ \E g \in Handlers : tx' = [tx EXCEPT ![g] = Idle]
  BY <1>2, <1>3, <1>11 DEF TypeOK
<1>12. ASSUME NEW g \in Handlers, NEW c \in Companies, BeginDeleteCompany(g, c)
       PROVE  SaveSafe(tx[h])'
  <2>1. CASE g = h
    BY <1>4, <1>12, <2>1
  <2>2. CASE g # h
    BY <1>10, <1>12, <2>2 DEF BeginDeleteCompany
  <2> QED
    BY <2>1, <2>2
<1>13. ASSUME NEW g \in Handlers, NEW r \in DealRows,
              BeginCreateDeal(g, r) \/ \E d \in Deals : BeginUpdateDeal(g, d, r)
       PROVE  SaveSafe(tx[h])'
  <2>1. CASE g = h
    BY <1>5, <1>6, <1>13, <2>1
  <2>2. CASE g # h
    BY <1>10, <1>13, <2>2 DEF BeginCreateDeal, BeginUpdateDeal
  <2> QED
    BY <2>1, <2>2
<1>14. ASSUME NEW g \in Handlers, NEW r \in LeadRows,
              BeginCreateLead(g, r) \/ \E l \in Leads : BeginUpdateLead(g, l, r)
       PROVE  SaveSafe(tx[h])'
  <2>1. CASE g = h
    BY <1>7, <1>8, <1>14, <2>1
  <2>2. CASE g # h
    BY <1>10, <1>14, <2>2 DEF BeginCreateLead, BeginUpdateLead
  <2> QED
    BY <2>1, <2>2
<1>15. ASSUME NEW g \in Handlers, NEW l \in Leads, NEW p \in Pipelines, NEW s \in Stages,
              BeginConvertLead(g, l, p, s)
       PROVE  SaveSafe(tx[h])'
  <2>1. CASE g = h
    BY <1>9, <1>15, <2>1
  <2>2. CASE g # h
    BY <1>10, <1>15, <2>2 DEF BeginConvertLead
  <2> QED
    BY <2>1, <2>2
<1>16. \/ UNCHANGED tx
       \/ \E g \in Handlers : tx' = [tx EXCEPT ![g] = Idle]
       \/ \E g \in Handlers, c \in Companies : BeginDeleteCompany(g, c)
       \/ \E g \in Handlers, r \in DealRows :
            BeginCreateDeal(g, r) \/ \E d \in Deals : BeginUpdateDeal(g, d, r)
       \/ \E g \in Handlers, r \in LeadRows :
            BeginCreateLead(g, r) \/ \E l \in Leads : BeginUpdateLead(g, l, r)
       \/ \E g \in Handlers, l \in Leads, p \in Pipelines, s \in Stages :
            BeginConvertLead(g, l, p, s)
  BY DEF Next, vars, CreateCompany, CreateContact, MoveContact, DeleteContact, DeleteCompany,
     CreatePipeline, CreateStage, DeletePipeline, DeleteStage, CreateDeal, UpdateDeal, DeleteDeal,
     CreateLead, UpdateLead, ConvertLead, DeleteLead, Rollback
<1> QED
  BY <1>11, <1>12, <1>13, <1>14, <1>15, <1>16

-----------------------------------------------------------------------------
(* Isolation. *)

LEMMA IsolationByRows ==
  ASSUME TypeOK
  PROVE  TenantIsolation <=> /\ \A d \in Deals : Exists(deal[d]) => deal[d] \in DealRows /\ DealIn(deal[d])
                             /\ \A l \in Leads : Exists(lead[l]) => lead[l] \in LeadRows /\ LeadIn(lead[l])
  BY DEF TenantIsolation, DealIn, LeadIn, LiveDeals, LiveLeads, TypeOK, Row, Exists

\* Rows stay in their organization while everything in it stays.
InStays ==
    \A o \in Orgs :
        /\ \A c \in Companies : CompanyIn(c, o) => CompanyIn(c, o)'
        /\ \A k \in Contacts : ContactIn(k, o) => ContactIn(k, o)'
        /\ \A p \in Pipelines : PipelineIn(p, o) => PipelineIn(p, o)'
        /\ \A s \in Stages : StageIn(s, o) => StageIn(s, o)'

LEMMA RowsKept ==
  ASSUME TypeOK, TypeOK', TenantIsolation, InStays, UNCHANGED <<deal, lead>>
  PROVE  TenantIsolation'
<1>1. ASSUME NEW d \in Deals, Exists(deal[d])
      PROVE  DealIn(deal[d])'
  <2>1. deal[d] \in DealRows /\ DealIn(deal[d])
    BY <1>1, IsolationByRows
  <2> QED
    BY <2>1 DEF DealIn, DealRows, InStays
<1>2. ASSUME NEW l \in Leads, Exists(lead[l])
      PROVE  LeadIn(lead[l])'
  <2>1. lead[l] \in LeadRows /\ LeadIn(lead[l])
    BY <1>2, IsolationByRows
  <2> QED
    BY <2>1 DEF LeadIn, LeadRows, InStays
<1> QED
  BY <1>1, <1>2 DEF TenantIsolation, DealIn, LeadIn, LiveDeals, LiveLeads, Exists

\* Creating rows and moving contacts takes nothing away.
LEMMA GrowthIsolation ==
  ASSUME TypeOK, TypeOK', ParentsThere, TenantIsolation,
         \/ \E c \in Companies, o \in Orgs : CreateCompany(c, o)
         \/ \E c \in Companies, k \in Contacts : CreateContact(k, c) \/ MoveContact(k, c)
         \/ \E p \in Pipelines, o \in Orgs : CreatePipeline(p, o)
         \/ \E p \in Pipelines, s \in Stages : CreateStage(s, p)
  PROVE  TenantIsolation'
<1> USE DEF TypeOK, Row, ParentsThere, InStays, CompanyIn, ContactIn, PipelineIn, StageIn, Exists
<1>1. ASSUME NEW c \in Companies, NEW o \in Orgs, CreateCompany(c, o)
      PROVE  InStays /\ UNCHANGED <<deal, lead>>
  BY <1>1 DEF CreateCompany
<1>2. ASSUME NEW c \in Companies, NEW k \in Contacts, CreateContact(k, c)
      PROVE  InStays /\ UNCHANGED <<deal, lead>>
  BY <1>2 DEF CreateContact
<1>3. ASSUME NEW c \in Companies, NEW k \in Contacts, MoveContact(k, c)
      PROVE  InStays /\ UNCHANGED <<deal, lead>>
  BY <1>3 DEF MoveContact
<1>4. ASSUME NEW p \in Pipelines, NEW o \in Orgs, CreatePipeline(p, o)
      PROVE  InStays /\ UNCHANGED <<deal, lead>>
  BY <1>4 DEF CreatePipeline
<1>5. ASSUME NEW p \in Pipelines, NEW s \in Stages, CreateStage(s, p)
      PROVE  InStays /\ UNCHANGED <<deal, lead>>
  BY <1>5 DEF CreateStage
<1>6. InStays /\ UNCHANGED <<deal, lead>>
  BY <1>1, <1>2, <1>3, <1>4, <1>5
<1> QED
  BY <1>6, RowsKept

\* The foreign keys keep the stages and pipelines of deals.
LEMMA DeletionIsolation ==
  ASSUME TypeOK, TypeOK', TenantIsolation,
         (\E p \in Pipelines : DeletePipeline(p)) \/ (\E s \in Stages : DeleteStage(s))
  PROVE  TenantIsolation'
<1> SUFFICES /\ \A d \in Deals : Exists(deal[d]) => DealIn(deal[d])'
             /\ \A l \in Leads : Exists(lead[l]) => LeadIn(lead[l])'
             /\ UNCHANGED <<deal, lead>>
  BY DEF TenantIsolation, DealIn, LeadIn, LiveDeals, LiveLeads, Exists
<1>1. UNCHANGED <<company, contact, deal, lead>>
  BY DEF DeletePipeline, DeleteStage
<1>2. ASSUME NEW d \in Deals, Exists(deal[d])
      PROVE  DealIn(deal[d])'
  <2>1. deal[d] \in DealRows /\ DealIn(deal[d])
    BY <1>2, IsolationByRows
  <2>2. PipelineIn(deal[d].pipeline, deal[d].org)' /\ StageIn(deal[d].stage, deal[d].org)'
    <3>1. ASSUME NEW p \in Pipelines, DeletePipeline(p)
          PROVE  PipelineIn(deal[d].pipeline, deal[d].org)' /\ StageIn(deal[d].stage, deal[d].org)'
      BY <1>2, <2>1, <3>1 DEF DeletePipeline, LiveDeals, DealIn, DealRows, PipelineIn, StageIn,
         TypeOK, Row, Exists
    <3>2. ASSUME NEW s \in Stages, DeleteStage(s)
          PROVE  PipelineIn(deal[d].pipeline, deal[d].org)' /\ StageIn(deal[d].stage, deal[d].org)'
      BY <1>2, <2>1, <3>2 DEF DeleteStage, LiveDeals, DealIn, DealRows, PipelineIn, StageIn,
         TypeOK, Row, Exists
    <3> QED
      BY <3>1, <3>2
  <2> QED
    BY <1>1, <2>1, <2>2 DEF DealIn, CompanyIn, ContactIn
<1>3. ASSUME NEW l \in Leads, Exists(lead[l])
      PROVE  LeadIn(lead[l])'
  <2>1. LeadIn(lead[l])
    BY <1>3, IsolationByRows
  <2> QED
    BY <1>1, <2>1 DEF LeadIn, CompanyIn, ContactIn
<1> QED
  BY <1>1, <1>2, <1>3

\* When contacts go, the rows that named them name none.
LEMMA DeleteContactIsolation ==
  ASSUME TypeOK, TypeOK', TenantIsolation, NEW k \in Contacts, DeleteContact(k)
  PROVE  TenantIsolation'
<1>1. /\ contact' = [contact EXCEPT ![k] = Gone]
      /\ deal' = WithoutContacts(deal, {k}) /\ lead' = WithoutContacts(lead, {k})
      /\ UNCHANGED <<company, pipeline, stage>>
  BY DEF DeleteContact
<1>2. ASSUME NEW d \in Deals, Exists(deal'[d])
      PROVE  DealIn(deal[d])'
  <2>1. Exists(deal[d])
    BY <1>1, <1>2, WithoutContactsDeal
  <2>2. deal[d] \in DealRows /\ DealIn(deal[d])
    BY <2>1, IsolationByRows
  <2>3. /\ deal'[d].org = deal[d].org /\ deal'[d].company = deal[d].company
        /\ deal'[d].pipeline = deal[d].pipeline /\ deal'[d].stage = deal[d].stage
        /\ deal'[d].contact # None => deal'[d].contact = deal[d].contact /\ deal[d].contact # k
    BY <1>1, <2>1, WithoutContactsDeal
  <2>4. deal[d].contact \in Contacts \cup {None}
    BY <2>2 DEF DealRows
  <2> QED
    BY <1>1, <2>2, <2>3, <2>4 DEF DealIn, CompanyIn, ContactIn, PipelineIn, StageIn, TypeOK
<1>3. ASSUME NEW l \in Leads, Exists(lead'[l])
      PROVE  LeadIn(lead[l])'
  <2>1. Exists(lead[l])
    BY <1>1, <1>3, WithoutContactsLead
  <2>2. lead[l] \in LeadRows /\ LeadIn(lead[l])
    BY <2>1, IsolationByRows
  <2>3. /\ lead'[l].org = lead[l].org /\ lead'[l].company = lead[l].company
        /\ lead'[l].contact # None => lead'[l].contact = lead[l].contact /\ lead[l].contact # k
    BY <1>1, <2>1, WithoutContactsLead
  <2>4. lead[l].contact \in Contacts \cup {None}
    BY <2>2 DEF LeadRows
  <2> QED
    BY <1>1, <2>2, <2>3, <2>4 DEF LeadIn, CompanyIn, ContactIn, TypeOK
<1> QED
  BY <1>2, <1>3 DEF TenantIsolation, DealIn, LeadIn, LiveDeals, LiveLeads, Exists

\* Deals keep their company from being deleted; leads lose it.
LEMMA DeleteCompanyIsolation ==
  ASSUME TypeOK, TypeOK', TenantIsolation, NEW h \in Handlers, DeleteCompany(h)
  PROVE  TenantIsolation'
<1> DEFINE c == tx[h].company
           K == {k \in Contacts : contact[k] = c}
           rows == WithoutContacts(lead, K)
<1>1. /\ c \in Companies
      /\ company' = [company EXCEPT ![c] = Gone]
      /\ contact' = [k \in Contacts |-> IF k \in K THEN Gone ELSE contact[k]]
      /\ \A d \in LiveDeals : deal[d].company # c
      /\ deal' = WithoutContacts(deal, K)
      /\ lead' = [l \in Leads |-> IF l \in LiveLeads /\ rows[l].company = c
                                  THEN [rows[l] EXCEPT !.company = None] ELSE rows[l]]
      /\ UNCHANGED <<pipeline, stage>>
  BY SaveTypes DEF DeleteCompany
<1> HIDE DEF c
<1>k. ASSUME NEW k \in Contacts, k \notin K, NEW o \in Orgs, ContactIn(k, o)
      PROVE  ContactIn(k, o)'
  BY <1>1, <1>k DEF ContactIn, Exists, TypeOK, Row
<1>c. ASSUME NEW x \in Companies, x # c, NEW o \in Orgs, CompanyIn(x, o)
      PROVE  CompanyIn(x, o)'
  BY <1>1, <1>c DEF CompanyIn, TypeOK
<1>2. ASSUME NEW d \in Deals, Exists(deal'[d])
      PROVE  DealIn(deal[d])'
  <2>1. Exists(deal[d])
    BY <1>1, <1>2, WithoutContactsDeal
  <2>2. deal[d] \in DealRows /\ DealIn(deal[d]) /\ deal[d].company # c
    BY <1>1, <2>1, IsolationByRows DEF LiveDeals
  <2>3. /\ deal'[d].org = deal[d].org /\ deal'[d].company = deal[d].company
        /\ deal'[d].pipeline = deal[d].pipeline /\ deal'[d].stage = deal[d].stage
        /\ deal'[d].contact # None => deal'[d].contact = deal[d].contact /\ deal[d].contact \notin K
    BY <1>1, <2>1, WithoutContactsDeal
  <2>4. /\ deal[d].contact \in Contacts \cup {None} /\ deal[d].org \in Orgs
        /\ deal[d].company \in Companies
    BY <2>2 DEF DealRows
  <2>5. CompanyIn(deal[d].company, deal[d].org)'
    BY <1>c, <2>2, <2>3, <2>4 DEF DealIn
  <2>6. deal'[d].contact # None => ContactIn(deal[d].contact, deal[d].org)'
    BY <1>k, <2>2, <2>3, <2>4 DEF DealIn
  <2> QED
    BY <1>1, <2>2, <2>3, <2>5, <2>6 DEF DealIn, PipelineIn, StageIn
<1>3. ASSUME NEW l \in Leads, Exists(lead'[l])
      PROVE  LeadIn(lead[l])'
  <2> DEFINE r == rows[l]
  <2>1. Exists(lead[l])
    <3>1. ~Exists(lead[l]) => lead'[l] = lead[l]
      BY <1>1, WithoutContactsLead DEF LiveLeads
    <3> QED
      BY <1>3, <3>1
  <2>2. lead[l] \in LeadRows /\ LeadIn(lead[l])
    BY <2>1, IsolationByRows
  <2>3. /\ r \in LeadRows /\ r.org = lead[l].org /\ r.company = lead[l].company
        /\ r.contact # None => r.contact = lead[l].contact /\ lead[l].contact \notin K
    BY <2>1, WithoutContactsLead
  <2>4. lead'[l] = IF r.company = c THEN [r EXCEPT !.company = None] ELSE r
    BY <1>1, <2>1 DEF LiveLeads
  <2> HIDE DEF r
  <2>5. /\ lead'[l].org = r.org /\ lead'[l].contact = r.contact
        /\ lead'[l].company # None => lead'[l].company = r.company /\ r.company # c
    BY <2>3, <2>4 DEF LeadRows
  <2>6. r.org \in Orgs /\ r.company \in Companies \cup {None} /\ r.contact \in Contacts \cup {None}
    BY <2>3 DEF LeadRows
  <2>7. lead'[l].company # None => CompanyIn(lead[l].company, lead[l].org)'
    BY <1>c, <2>2, <2>3, <2>5, <2>6 DEF LeadIn
  <2>8. lead'[l].contact # None => ContactIn(lead[l].contact, lead[l].org)'
    BY <1>k, <2>2, <2>3, <2>5, <2>6 DEF LeadIn
  <2> QED
    BY <2>7, <2>8 DEF LeadIn
<1> QED
  BY <1>2, <1>3 DEF TenantIsolation, DealIn, LeadIn, LiveDeals, LiveLeads, Exists

\* What the foreign keys accept of a safe save is of its organization.
LEMMA AcceptedDeal ==
  ASSUME NEW r \in DealRows, DealSafe(r, r.org), DealKeys(r)
  PROVE  DealIn(r)
  BY DEF DealRows, DealSafe, DealKeys, DealIn, CompanySafe, ContactSafe, PipelineSafe, StageSafe, Exists

LEMMA AcceptedLead ==
  ASSUME NEW r \in LeadRows, LeadSafe(r, r.org), LeadKeys(r)
  PROVE  LeadIn(r)
  BY DEF LeadRows, LeadSafe, LeadKeys, LeadIn, CompanySafe, ContactSafe, Exists

LEMMA AcceptedDealChange ==
  ASSUME NEW old \in DealRows, DealIn(old), NEW change \in DealChanges,
         DealSafe(change, old.org), DealKeys(change)
  PROVE  DealIn([org |-> old.org,
                 company |-> After(change.company, old.company),
                 contact |-> After(change.contact, old.contact),
                 pipeline |-> After(change.pipeline, old.pipeline),
                 stage |-> After(change.stage, old.stage)])
<1>1. /\ change.company # Keep => CompanyIn(change.company, old.org)
      /\ change.contact \notin {None, Keep} => ContactIn(change.contact, old.org)
      /\ change.pipeline # Keep => PipelineIn(change.pipeline, old.org)
      /\ change.stage # Keep => StageIn(change.stage, old.org)
  BY DEF DealChanges, DealSafe, DealKeys, CompanySafe, ContactSafe, PipelineSafe, StageSafe, Exists
<1> QED
  BY <1>1 DEF DealIn, After

LEMMA AcceptedLeadChange ==
  ASSUME NEW old \in LeadRows, LeadIn(old), NEW change \in LeadChanges,
         LeadSafe(change, old.org), LeadKeys(change)
  PROVE  LeadIn([org |-> old.org,
                 company |-> After(change.company, old.company),
                 contact |-> After(change.contact, old.contact),
                 status |-> After(change.status, old.status)])
<1>1. /\ change.company \notin {None, Keep} => CompanyIn(change.company, old.org)
      /\ change.contact \notin {None, Keep} => ContactIn(change.contact, old.org)
  BY DEF LeadSafe, LeadKeys, CompanySafe, ContactSafe, Exists
<1> QED
  BY <1>1 DEF LeadIn, After

\* One deal or lead written, or deleted, while the rows it refers to stay.
LEMMA DealWritten ==
  ASSUME TypeOK, TenantIsolation, UNCHANGED <<References, lead>>, NEW d \in Deals, NEW r,
         deal' = [deal EXCEPT ![d] = r], Exists(r) => DealIn(r)
  PROVE  TenantIsolation'
<1>1. \A x \in Deals : Exists(deal'[x]) => DealIn(deal'[x])
  BY IsolationByRows DEF TypeOK
<1> QED
  BY <1>1 DEF References, TenantIsolation, DealIn, LiveDeals, LiveLeads, CompanyIn, ContactIn,
     PipelineIn, StageIn, Exists

LEMMA LeadWritten ==
  ASSUME TypeOK, TenantIsolation, UNCHANGED <<References, deal>>, NEW l \in Leads, NEW r,
         lead' = [lead EXCEPT ![l] = r], Exists(r) => LeadIn(r)
  PROVE  TenantIsolation'
<1>1. \A x \in Leads : Exists(lead'[x]) => LeadIn(lead'[x])
  BY IsolationByRows DEF TypeOK
<1> QED
  BY <1>1 DEF References, TenantIsolation, LeadIn, LiveDeals, LiveLeads, CompanyIn, ContactIn,
     PipelineIn, StageIn, Exists

LEMMA SaveIsolation ==
  ASSUME TypeOK, TenantIsolation, SavesSafe, NEW h \in Handlers,
         \/ \E d \in Deals : CreateDeal(h, d) \/ ConvertLead(h, d)
         \/ \E l \in Leads : CreateLead(h, l)
         \/ UpdateDeal(h) \/ UpdateLead(h)
  PROVE  TenantIsolation'
<1>s. SaveSafe(tx[h])
  BY DEF SavesSafe, SaveSafe
<1>1. ASSUME NEW d \in Deals, CreateDeal(h, d)
      PROVE  TenantIsolation'
  <2>1. tx[h].row \in DealRows /\ DealSafe(tx[h].row, tx[h].row.org) /\ DealKeys(tx[h].row)
    BY <1>s, <1>1, SaveTypes DEF CreateDeal, SaveSafe
  <2>2. DealIn(tx[h].row)
    BY <2>1, AcceptedDeal
  <2> QED
    BY <1>1, <2>2, DealWritten DEF CreateDeal, References
<1>2. ASSUME NEW l \in Leads, CreateLead(h, l)
      PROVE  TenantIsolation'
  <2>1. tx[h].row \in LeadRows /\ LeadSafe(tx[h].row, tx[h].row.org) /\ LeadKeys(tx[h].row)
    BY <1>s, <1>2, SaveTypes DEF CreateLead, SaveSafe
  <2>2. LeadIn(tx[h].row)
    BY <2>1, AcceptedLead
  <2> QED
    BY <1>2, <2>2, LeadWritten DEF CreateLead, References
<1>3. CASE UpdateDeal(h)
  <2> DEFINE d == tx[h].deal
             change == tx[h].change
             r == [org |-> deal[d].org,
                   company |-> After(change.company, deal[d].company),
                   contact |-> After(change.contact, deal[d].contact),
                   pipeline |-> After(change.pipeline, deal[d].pipeline),
                   stage |-> After(change.stage, deal[d].stage)]
  <2>1. /\ d \in Deals /\ change \in DealChanges /\ Exists(deal[d])
        /\ DealSafe(change, deal[d].org) /\ DealKeys(change)
    BY <1>s, <1>3, SaveTypes DEF UpdateDeal, SaveSafe
  <2>2. deal[d] \in DealRows /\ DealIn(deal[d])
    BY <2>1, IsolationByRows
  <2>3. DealIn(r)
    BY <2>1, <2>2, AcceptedDealChange
  <2>4. deal' = [deal EXCEPT ![d] = r] /\ UNCHANGED <<References, lead>>
    BY <1>3 DEF UpdateDeal, References
  <2> QED
    BY <2>1, <2>3, <2>4, DealWritten
<1>4. CASE UpdateLead(h)
  <2> DEFINE l == tx[h].lead
             change == tx[h].change
             r == [org |-> lead[l].org,
                   company |-> After(change.company, lead[l].company),
                   contact |-> After(change.contact, lead[l].contact),
                   status |-> After(change.status, lead[l].status)]
  <2>1. /\ l \in Leads /\ change \in LeadChanges /\ Exists(lead[l])
        /\ LeadSafe(change, lead[l].org) /\ LeadKeys(change)
    BY <1>s, <1>4, SaveTypes DEF UpdateLead, SaveSafe
  <2>2. lead[l] \in LeadRows /\ LeadIn(lead[l])
    BY <2>1, IsolationByRows
  <2>3. LeadIn(r)
    BY <2>1, <2>2, AcceptedLeadChange
  <2>4. lead' = [lead EXCEPT ![l] = r] /\ UNCHANGED <<References, deal>>
    BY <1>4 DEF UpdateLead, References
  <2> QED
    BY <2>1, <2>3, <2>4, LeadWritten
<1>5. ASSUME NEW d \in Deals, ConvertLead(h, d)
      PROVE  TenantIsolation'
  <2> DEFINE l == tx[h].lead
             old == lead[l]
  <2>1. /\ tx[h].row \in DealRows /\ DealSafe(tx[h].row, tx[h].row.org) /\ DealKeys(tx[h].row)
        /\ l \in Leads /\ Exists(lead[l])
    BY <1>s, <1>5, SaveTypes DEF ConvertLead, SaveSafe
  <2>2. DealIn(tx[h].row)
    BY <2>1, AcceptedDeal
  <2>3. old \in LeadRows /\ LeadIn(old)
    BY <2>1, IsolationByRows
  <2>4. /\ deal' = [deal EXCEPT ![d] = tx[h].row]
        /\ lead' = [lead EXCEPT ![l] = [old EXCEPT !.status = "closed"]]
        /\ UNCHANGED References
    BY <1>5 DEF ConvertLead, References
  <2>5. \A x \in Deals : Exists(deal'[x]) => DealIn(deal'[x])
    BY <2>2, <2>4, IsolationByRows DEF TypeOK
  <2>6. \A x \in Leads : Exists(lead'[x]) => LeadIn(lead'[x])
    <3> HIDE DEF old, l
    <3>1. /\ [old EXCEPT !.status = "closed"].org = old.org
          /\ [old EXCEPT !.status = "closed"].company = old.company
          /\ [old EXCEPT !.status = "closed"].contact = old.contact
      BY <2>3 DEF LeadRows
    <3>2. LeadIn([old EXCEPT !.status = "closed"])
      BY <2>3, <3>1 DEF LeadIn
    <3> QED
      BY <2>1, <2>4, <3>2, IsolationByRows DEF TypeOK
  <2> QED
    BY <2>4, <2>5, <2>6 DEF References, TenantIsolation, DealIn, LeadIn, LiveDeals, LiveLeads,
       CompanyIn, ContactIn, PipelineIn, StageIn, Exists
<1> QED
  BY <1>1, <1>2, <1>3, <1>4, <1>5

LEMMA IsolationStep ==
  ASSUME TypeOK, TypeOK', ParentsThere, TenantIsolation, SavesSafe, [Next]_vars
  PROVE  TenantIsolation'
<1>1. CASE UNCHANGED <<References, deal, lead>>
  BY <1>1 DEF References, TenantIsolation, LiveDeals, LiveLeads, CompanyIn, ContactIn, PipelineIn,
     StageIn, Exists
<1>2. ASSUME NEW d \in Deals, DeleteDeal(d)
      PROVE  TenantIsolation'
  BY <1>2, DealWritten DEF DeleteDeal, References, Exists
<1>3. ASSUME NEW l \in Leads, DeleteLead(l)
      PROVE  TenantIsolation'
  BY <1>3, LeadWritten DEF DeleteLead, References, Exists
<1>4. CASE \/ \E c \in Companies, o \in Orgs : CreateCompany(c, o)
           \/ \E c \in Companies, k \in Contacts : CreateContact(k, c) \/ MoveContact(k, c)
           \/ \E p \in Pipelines, o \in Orgs : CreatePipeline(p, o)
           \/ \E p \in Pipelines, s \in Stages : CreateStage(s, p)
  BY <1>4, GrowthIsolation
<1>5. CASE (\E p \in Pipelines : DeletePipeline(p)) \/ (\E s \in Stages : DeleteStage(s))
  BY <1>5, DeletionIsolation
<1>6. CASE \E k \in Contacts : DeleteContact(k)
  BY <1>6, DeleteContactIsolation
<1>7. CASE \E h \in Handlers : DeleteCompany(h)
  BY <1>7, DeleteCompanyIsolation
<1>8. CASE \E h \in Handlers :
             \/ \E d \in Deals : CreateDeal(h, d) \/ ConvertLead(h, d)
             \/ \E l \in Leads : CreateLead(h, l)
             \/ UpdateDeal(h) \/ UpdateLead(h)
  BY <1>8, SaveIsolation
<1>9. \/ UNCHANGED <<References, deal, lead>>
      \/ \E h \in Handlers :
           \/ \E c \in Companies : BeginDeleteCompany(h, c)
           \/ \E r \in DealRows : BeginCreateDeal(h, r) \/ \E d \in Deals : BeginUpdateDeal(h, d, r)
           \/ \E r \in LeadRows : BeginCreateLead(h, r) \/ \E l \in Leads : BeginUpdateLead(h, l, r)
           \/ \E l \in Leads, p \in Pipelines, s \in Stages : BeginConvertLead(h, l, p, s)
           \/ Rollback(h)
      => UNCHANGED <<References, deal, lead>>
  BY DEF BeginDeleteCompany, BeginCreateDeal, BeginUpdateDeal, BeginCreateLead, BeginUpdateLead,
     BeginConvertLead, Rollback, Start, References
<1> QED
  BY <1>1, <1>2, <1>3, <1>4, <1>5, <1>6, <1>7, <1>8, <1>9 DEF Next, vars, References

-----------------------------------------------------------------------------
(* While requests come one at a time, what a save has checked still holds  *)
(* when it commits.                                                        *)

\* The row an update of a deal writes.
UpdatedDeal(d, change) ==
    [org |-> deal[d].org,
     company |-> After(change.company, deal[d].company),
     contact |-> After(change.contact, deal[d].contact),
     pipeline |-> After(change.pipeline, deal[d].pipeline),
     stage |-> After(change.stage, deal[d].stage)]

\* What a save relies on.
CheckedStill(t) ==
    /\ t.op \in {"createDeal", "convertLead"} => DealReferences(t.row)
    /\ t.op = "updateDeal" => DealReferences(UpdatedDeal(t.deal, t.change))
    /\ t.op = "convertLead" => Exists(lead[t.lead]) /\ lead[t.lead].status = "open"
    /\ t.op = "deleteCompany" => \A k \in Contacts : contact[k] # t.company

OneSave == \A h, i \in Handlers : tx[h] # Idle /\ tx[i] # Idle => h = i

StagesFit == \A d \in LiveDeals : stage[deal[d].stage] = deal[d].pipeline

SequentialInv ==
    sequential => OneSave /\ StagesFit /\ \A h \in Handlers : CheckedStill(tx[h])

\* A save that starts while requests come one at a time is alone, and what it
\* has just checked holds.
LEMMA StartSequential ==
  ASSUME TypeOK, SequentialInv, NEW h \in Handlers, NEW save \in Saves, Start(h, save),
         CheckedStill(save)
  PROVE  SequentialInv'
<1> SUFFICES ASSUME sequential
             PROVE  OneSave' /\ StagesFit' /\ \A i \in Handlers : CheckedStill(tx[i])'
  BY DEF SequentialInv, Start
<1>1. \A i \in Handlers : tx[i] = Idle
  BY DEF Start, MayStart
<1>2. tx'[h] = save /\ \A i \in Handlers : i # h => tx'[i] = Idle
  BY <1>1 DEF Start, TypeOK
<1>3. UNCHANGED <<company, contact, pipeline, stage, deal, lead>>
  BY DEF Start
<1>4. CheckedStill(save)'
  BY <1>3 DEF CheckedStill, DealReferences, UpdatedDeal, Exists
<1>5. CheckedStill(Idle)'
  BY DEF CheckedStill, Idle
<1>6. OneSave'
  BY <1>2 DEF OneSave
<1>7. StagesFit'
  BY <1>3 DEF SequentialInv, StagesFit, LiveDeals, Exists
<1> QED
  BY <1>2, <1>4, <1>5, <1>6, <1>7

\* Otherwise no save is left under way: the one there was has ended, or there was
\* none and none starts.
LEMMA NoneLeft ==
  ASSUME TypeOK, SequentialInv, sequential,
         \/ MayStart /\ UNCHANGED tx
         \/ \E h \in Handlers : tx[h] # Idle /\ tx' = [tx EXCEPT ![h] = Idle]
  PROVE  OneSave' /\ \A i \in Handlers : CheckedStill(tx[i])'
<1>1. \A i \in Handlers : tx'[i] = Idle
  <2>1. CASE MayStart /\ UNCHANGED tx
    BY <2>1 DEF MayStart
  <2>2. ASSUME NEW h \in Handlers, tx[h] # Idle, tx' = [tx EXCEPT ![h] = Idle]
        PROVE  \A i \in Handlers : tx'[i] = Idle
    BY <2>2 DEF SequentialInv, OneSave, TypeOK
  <2> QED
    BY <2>1, <2>2
<1>2. CheckedStill(Idle)'
  BY DEF CheckedStill, Idle
<1> QED
  BY <1>1, <1>2 DEF OneSave

\* A row of a deal that is written fits if its references were checked.
LEMMA FitWritten ==
  ASSUME TypeOK, StagesFit, UNCHANGED stage, NEW d \in Deals, NEW row,
         deal' = [deal EXCEPT ![d] = row], Exists(row) => stage[row.stage] = row.pipeline
  PROVE  StagesFit'
<1>1. \A e \in Deals : deal'[e] = IF e = d THEN row ELSE deal[e]
  BY DEF TypeOK
<1> QED
  BY <1>1 DEF StagesFit, LiveDeals, Exists

\* Rows that only lose their contacts fit on.
LEMMA FitWithout ==
  ASSUME TypeOK, StagesFit, UNCHANGED stage, NEW K, deal' = WithoutContacts(deal, K)
  PROVE  StagesFit'
<1>1. \A d \in Deals : Exists(deal'[d]) =>
        /\ Exists(deal[d]) /\ deal'[d].stage = deal[d].stage /\ deal'[d].pipeline = deal[d].pipeline
  BY WithoutContactsDeal
<1> QED
  BY <1>1 DEF StagesFit, LiveDeals, Exists

\* The foreign keys keep the stage of a deal, and a stage never changes pipeline.
LEMMA FitKept ==
  ASSUME TypeOK, StagesFit, UNCHANGED deal,
         \A d \in LiveDeals : stage'[deal[d].stage] = stage[deal[d].stage]
  PROVE  StagesFit'
  BY DEF StagesFit, LiveDeals, Exists

LEMMA DealFields ==
  ASSUME TypeOK, NEW d \in LiveDeals
  PROVE  deal[d] \in DealRows /\ deal[d].stage \in Stages /\ deal[d].pipeline \in Pipelines
  BY DEF TypeOK, LiveDeals, Row, Exists, DealRows

LEMMA SequentialStep ==
  ASSUME TypeOK, SequentialInv, [Next]_vars
  PROVE  SequentialInv'
<1>1. ASSUME NEW h \in Handlers, NEW c \in Companies, BeginDeleteCompany(h, c)
      PROVE  SequentialInv'
  <2> DEFINE save == [op |-> "deleteCompany", company |-> c]
  <2>1. save \in Saves
    BY DEF Saves
  <2>2. CheckedStill(save)
    BY <1>1 DEF CheckedStill, BeginDeleteCompany
  <2> QED
    BY <1>1, <2>1, <2>2, StartSequential DEF BeginDeleteCompany
<1>2. ASSUME NEW h \in Handlers, NEW r \in DealRows, BeginCreateDeal(h, r)
      PROVE  SequentialInv'
  <2> DEFINE save == [op |-> "createDeal", row |-> r]
  <2>1. save \in Saves
    BY DEF Saves
  <2>2. CheckedStill(save)
    BY <1>2 DEF CheckedStill, BeginCreateDeal
  <2> QED
    BY <1>2, <2>1, <2>2, StartSequential DEF BeginCreateDeal
<1>3. ASSUME NEW h \in Handlers, NEW d \in Deals, NEW r \in DealRows, BeginUpdateDeal(h, d, r)
      PROVE  SequentialInv'
  <2>1. PICK change :
          change = [company |-> Changed(r.company, deal[d].company),
                    contact |-> Changed(r.contact, deal[d].contact),
                    pipeline |-> Changed(r.pipeline, deal[d].pipeline),
                    stage |-> Changed(r.stage, deal[d].stage)]
    OBVIOUS
  <2>2. PICK save : save = [op |-> "updateDeal", deal |-> d, change |-> change]
    OBVIOUS
  <2>3. change \in DealChanges
    BY <2>1 DEF DealRows, DealChanges, Changed
  <2>4. save \in Saves
    BY <2>2, <2>3 DEF Saves
  <2>5. /\ r.company # Keep /\ r.contact # Keep /\ r.pipeline # Keep /\ r.stage # Keep
        /\ change.company = Changed(r.company, deal[d].company)
        /\ change.contact = Changed(r.contact, deal[d].contact)
        /\ change.pipeline = Changed(r.pipeline, deal[d].pipeline)
        /\ change.stage = Changed(r.stage, deal[d].stage)
    BY <2>1 DEF DealRows
  <2>6. /\ UpdatedDeal(d, change).org = r.org /\ UpdatedDeal(d, change).company = r.company
        /\ UpdatedDeal(d, change).contact = r.contact
        /\ UpdatedDeal(d, change).pipeline = r.pipeline /\ UpdatedDeal(d, change).stage = r.stage
    BY <1>3, <2>5 DEF BeginUpdateDeal, UpdatedDeal, After, Changed
  <2>7. DealReferences(UpdatedDeal(d, change))
    BY <1>3, <2>6 DEF BeginUpdateDeal, DealReferences
  <2>8. CheckedStill(save)
    BY <2>2, <2>7 DEF CheckedStill
  <2> QED
    BY <1>3, <2>1, <2>2, <2>4, <2>8, StartSequential DEF BeginUpdateDeal
<1>4. ASSUME NEW h \in Handlers, NEW r \in LeadRows, BeginCreateLead(h, r)
      PROVE  SequentialInv'
  <2> DEFINE save == [op |-> "createLead", row |-> r]
  <2>1. save \in Saves /\ CheckedStill(save)
    BY DEF Saves, CheckedStill
  <2> QED
    BY <1>4, <2>1, StartSequential DEF BeginCreateLead
<1>5. ASSUME NEW h \in Handlers, NEW l \in Leads, NEW r \in LeadRows, BeginUpdateLead(h, l, r)
      PROVE  SequentialInv'
  <2> DEFINE change == [company |-> Changed(r.company, lead[l].company),
                        contact |-> Changed(r.contact, lead[l].contact),
                        status |-> Changed(r.status, lead[l].status)]
             save == [op |-> "updateLead", lead |-> l, change |-> change]
  <2>1. change \in LeadChanges
    BY DEF LeadRows, LeadChanges, Changed
  <2> HIDE DEF change
  <2>2. save \in Saves /\ CheckedStill(save)
    BY <2>1 DEF Saves, CheckedStill
  <2> QED
    BY <1>5, <2>2, StartSequential DEF BeginUpdateLead, change
<1>6. ASSUME NEW h \in Handlers, NEW l \in Leads, NEW p \in Pipelines, NEW s \in Stages,
             BeginConvertLead(h, l, p, s)
      PROVE  SequentialInv'
  <2> DEFINE row == DealOf(l, p, s)
             save == [op |-> "convertLead", lead |-> l, row |-> row]
  <2>1. lead[l] \in LeadRows /\ lead[l].company \in Companies
    BY <1>6 DEF BeginConvertLead, TypeOK, Row, Exists, LeadRows
  <2>2. row \in DealRows
    BY <2>1 DEF DealOf, DealRows, LeadRows
  <2>3. DealReferences(row) /\ Exists(lead[l]) /\ lead[l].status = "open" /\ Start(h, save)
    BY <1>6 DEF BeginConvertLead
  <2> HIDE DEF row
  <2>4. save \in Saves
    BY <2>2 DEF Saves
  <2>5. CheckedStill(save)
    BY <2>3 DEF CheckedStill
  <2> QED
    BY <2>3, <2>4, <2>5, StartSequential
<1>7. CASE UNCHANGED vars
  <2>1. SequentialInv' = SequentialInv
    BY <1>7 DEF vars, SequentialInv, OneSave, StagesFit, LiveDeals, Exists, CheckedStill,
       DealReferences, UpdatedDeal
  <2> QED
    BY <2>1
<1>8. ASSUME sequential,
             \/ MayStart /\ UNCHANGED tx
             \/ \E h \in Handlers : tx[h] # Idle /\ tx' = [tx EXCEPT ![h] = Idle],
             StagesFit', UNCHANGED sequential
      PROVE  SequentialInv'
  BY <1>8, NoneLeft DEF SequentialInv
<1>9. CASE ~sequential
  <2>1. UNCHANGED sequential
    BY SequentialIsFixed
  <2> QED
    BY <1>9, <2>1 DEF SequentialInv
<1>10. CASE sequential /\ Next
  <2> USE <1>10
  <2>1. StagesFit /\ \A h \in Handlers : CheckedStill(tx[h])
    BY DEF SequentialInv
  <2>2. Idle.op = "idle"
    BY DEF Idle
  <2>3. ASSUME NEW c \in Companies, NEW o \in Orgs, CreateCompany(c, o)
        PROVE  SequentialInv'
    BY <1>8, <2>1, <2>3, FitKept DEF CreateCompany
  <2>4. ASSUME NEW c \in Companies, NEW k \in Contacts, CreateContact(k, c) \/ MoveContact(k, c)
        PROVE  SequentialInv'
    BY <1>8, <2>1, <2>4, FitKept DEF CreateContact, MoveContact
  <2>5. ASSUME NEW k \in Contacts, DeleteContact(k)
        PROVE  SequentialInv'
    BY <1>8, <2>1, <2>5, FitWithout DEF DeleteContact
  <2>6. ASSUME NEW p \in Pipelines, NEW o \in Orgs, CreatePipeline(p, o)
        PROVE  SequentialInv'
    BY <1>8, <2>1, <2>6, FitKept DEF CreatePipeline
  <2>7. ASSUME NEW p \in Pipelines, NEW s \in Stages, CreateStage(s, p)
        PROVE  SequentialInv'
    <3>1. \A d \in LiveDeals : deal[d].stage \in Stages /\ stage[deal[d].stage] \in Pipelines
      BY <2>1, DealFields DEF StagesFit
    <3>2. \A d \in LiveDeals : stage'[deal[d].stage] = stage[deal[d].stage]
      BY <2>7, <3>1 DEF CreateStage, TypeOK
    <3> QED
      BY <1>8, <2>1, <2>7, <3>2, FitKept DEF CreateStage
  <2>8. ASSUME NEW p \in Pipelines, DeletePipeline(p)
        PROVE  SequentialInv'
    <3>1. \A d \in LiveDeals : stage'[deal[d].stage] = stage[deal[d].stage]
      BY <2>8, DealFields DEF DeletePipeline
    <3> QED
      BY <1>8, <2>1, <2>8, <3>1, FitKept DEF DeletePipeline
  <2>9. ASSUME NEW s \in Stages, DeleteStage(s)
        PROVE  SequentialInv'
    <3>1. \A d \in LiveDeals : stage'[deal[d].stage] = stage[deal[d].stage]
      BY <2>9, DealFields DEF DeleteStage, TypeOK
    <3> QED
      BY <1>8, <2>1, <2>9, <3>1, FitKept DEF DeleteStage
  <2>10. ASSUME NEW d \in Deals, DeleteDeal(d)
         PROVE  SequentialInv'
    <3>1. ~Exists(Gone)
      BY DEF Exists
    <3> QED
      BY <1>8, <2>1, <2>10, <3>1, FitWritten DEF DeleteDeal
  <2>11. ASSUME NEW l \in Leads, DeleteLead(l)
         PROVE  SequentialInv'
    BY <1>8, <2>1, <2>11, FitKept DEF DeleteLead
  <2>12. ASSUME NEW h \in Handlers, DeleteCompany(h)
         PROVE  SequentialInv'
    BY <1>8, <2>1, <2>2, <2>12, FitWithout DEF DeleteCompany
  <2>13. ASSUME NEW h \in Handlers, NEW d \in Deals, CreateDeal(h, d) \/ ConvertLead(h, d)
         PROVE  SequentialInv'
    <3>1. DealReferences(tx[h].row)
      BY <2>1, <2>13 DEF CheckedStill, CreateDeal, ConvertLead
    <3>2. StagesFit'
      BY <2>1, <2>13, <3>1, FitWritten DEF CreateDeal, ConvertLead, DealReferences
    <3> QED
      BY <1>8, <2>2, <2>13, <3>2 DEF CreateDeal, ConvertLead
  <2>14. ASSUME NEW h \in Handlers, UpdateDeal(h)
         PROVE  SequentialInv'
    <3> DEFINE row == UpdatedDeal(tx[h].deal, tx[h].change)
    <3>1. DealReferences(row) /\ tx[h].deal \in Deals
      BY <2>1, <2>14, SaveTypes DEF CheckedStill, UpdateDeal
    <3>2. deal' = [deal EXCEPT ![tx[h].deal] = row] /\ UNCHANGED stage
      BY <2>14 DEF UpdateDeal, UpdatedDeal
    <3> HIDE DEF row
    <3>3. StagesFit'
      BY <2>1, <3>1, <3>2, FitWritten DEF DealReferences
    <3> QED
      BY <1>8, <2>2, <2>14, <3>3 DEF UpdateDeal
  <2>15. ASSUME NEW h \in Handlers, Rollback(h) \/ UpdateLead(h) \/ \E l \in Leads : CreateLead(h, l)
         PROVE  SequentialInv'
    BY <1>8, <2>1, <2>2, <2>15, FitKept DEF Rollback, UpdateLead, CreateLead
  <2> QED
    BY <1>1, <1>2, <1>3, <1>4, <1>5, <1>6, <2>3, <2>4, <2>5, <2>6, <2>7, <2>8, <2>9, <2>10,
       <2>11, <2>12, <2>13, <2>14, <2>15 DEF Next
<1> QED
  BY <1>7, <1>9, <1>10

-----------------------------------------------------------------------------
(* One organization per commit. *)

\* A conversion in flight makes the deal of its lead's organization.
ConversionsAtHome ==
    \A h \in Handlers : tx[h].op = "convertLead" =>
        /\ lead[tx[h].lead] # Unborn
        /\ Exists(lead[tx[h].lead]) => lead[tx[h].lead].org = tx[h].row.org

LEMMA ConversionStep ==
  ASSUME TypeOK, RowsStay, ConversionsAtHome, [Next]_vars
  PROVE  ConversionsAtHome'
<1> SUFFICES ASSUME NEW h \in Handlers, tx'[h].op = "convertLead"
             PROVE  /\ lead'[tx'[h].lead] # Unborn
                    /\ Exists(lead'[tx'[h].lead]) => lead'[tx'[h].lead].org = tx'[h].row.org
  BY DEF ConversionsAtHome, Exists
<1>1. CASE tx'[h] = tx[h]
  <2>1. tx[h].lead \in Leads
    BY <1>1, SaveTypes
  <2> QED
    BY <1>1, <2>1 DEF ConversionsAtHome, RowsStay
<1>2. ASSUME NEW l \in Leads, NEW p \in Pipelines, NEW s \in Stages, BeginConvertLead(h, l, p, s)
      PROVE  /\ lead'[tx'[h].lead] # Unborn
             /\ Exists(lead'[tx'[h].lead]) => lead'[tx'[h].lead].org = tx'[h].row.org
  <2>1. tx'[h] = [op |-> "convertLead", lead |-> l, row |-> DealOf(l, p, s)]
    BY <1>2 DEF BeginConvertLead, Start, TypeOK
  <2>2. UNCHANGED lead /\ Exists(lead[l])
    BY <1>2 DEF BeginConvertLead, Start
  <2>3. DealOf(l, p, s).org = lead[l].org
    BY DEF DealOf
  <2> QED
    BY <2>1, <2>2, <2>3 DEF Exists
<1>3. \A g \in Handlers : \A save : Start(g, save) => tx'[h] = tx[h] \/ (g = h /\ tx'[h] = save)
  BY DEF Start, TypeOK
<1>4. ASSUME NEW g \in Handlers,
             \/ \E c \in Companies : BeginDeleteCompany(g, c)
             \/ \E r \in DealRows : BeginCreateDeal(g, r) \/ \E d \in Deals : BeginUpdateDeal(g, d, r)
             \/ \E r \in LeadRows : BeginCreateLead(g, r) \/ \E l \in Leads : BeginUpdateLead(g, l, r)
      PROVE  tx'[h] = tx[h]
  <2>1. CASE \E c \in Companies : BeginDeleteCompany(g, c)
    BY <1>3, <2>1 DEF BeginDeleteCompany
  <2>2. CASE \E r \in DealRows : BeginCreateDeal(g, r)
    BY <1>3, <2>2 DEF BeginCreateDeal
  <2>3. ASSUME NEW r \in DealRows, NEW d \in Deals, BeginUpdateDeal(g, d, r)
        PROVE  tx'[h] = tx[h]
    <3>1. PICK change : Start(g, [op |-> "updateDeal", deal |-> d, change |-> change])
      BY <2>3 DEF BeginUpdateDeal
    <3> QED
      BY <1>3, <3>1
  <2>4. CASE \E r \in LeadRows : BeginCreateLead(g, r)
    BY <1>3, <2>4 DEF BeginCreateLead
  <2>5. ASSUME NEW r \in LeadRows, NEW l \in Leads, BeginUpdateLead(g, l, r)
        PROVE  tx'[h] = tx[h]
    <3>1. PICK change : Start(g, [op |-> "updateLead", lead |-> l, change |-> change])
      BY <2>5 DEF BeginUpdateLead
    <3> QED
      BY <1>3, <3>1
  <2> QED
    BY <1>4, <2>1, <2>2, <2>3, <2>4, <2>5
<1>5. CASE UNCHANGED tx \/ \E g \in Handlers : tx' = [tx EXCEPT ![g] = Idle]
  <2>1. tx'[h] = tx[h] \/ tx'[h] = Idle
    BY <1>5 DEF TypeOK
  <2> QED
    BY <1>1, <2>1 DEF Idle
<1>6. ASSUME NEW g \in Handlers, NEW l \in Leads, NEW p \in Pipelines, NEW s \in Stages,
             BeginConvertLead(g, l, p, s)
      PROVE  tx'[h] = tx[h] \/ g = h
  BY <1>3, <1>6 DEF BeginConvertLead
<1> QED
  BY <1>1, <1>2, <1>4, <1>5, <1>6
     DEF Next, vars, CreateCompany, CreateContact, MoveContact, DeleteContact, DeleteCompany,
         CreatePipeline, CreateStage, DeletePipeline, DeleteStage, CreateDeal, UpdateDeal, DeleteDeal,
         CreateLead, UpdateLead, ConvertLead, DeleteLead, Rollback

\* A step that writes one deal, or one lead, or both, all of one organization.
LEMMA SavesWriteOne ==
  ASSUME UNCHANGED References, NEW o \in Orgs,
         \A d \in Deals, q \in Orgs :
            deal'[d] # deal[d] /\ (DealOfOrg(d, q) \/ DealOfOrg(d, q)') => q = o,
         \A l \in Leads, q \in Orgs :
            lead'[l] # lead[l] /\ (LeadOfOrg(l, q) \/ LeadOfOrg(l, q)') => q = o
  PROVE  \A q \in Orgs : Writes(q) => q = o
  BY DEF Writes, References

\* A contact is cleared in rows of its own organization only.
LEMMA ClearedAtHome ==
  ASSUME TypeOK, TenantIsolation, NEW K, NEW o \in Orgs, \A k \in K : company[contact[k]] = o
  PROVE  /\ \A d \in Deals : WithoutContacts(deal, K)[d] # deal[d] =>
              /\ Exists(deal[d]) /\ deal[d].org = o
              /\ WithoutContacts(deal, K)[d].org = o
         /\ \A l \in Leads : WithoutContacts(lead, K)[l] # lead[l] =>
              /\ Exists(lead[l]) /\ lead[l].org = o
              /\ WithoutContacts(lead, K)[l].org = o
<1>1. ASSUME NEW d \in Deals, WithoutContacts(deal, K)[d] # deal[d]
      PROVE  /\ Exists(deal[d]) /\ deal[d].org = o
             /\ WithoutContacts(deal, K)[d].org = o
  <2>1. Exists(deal[d]) /\ deal[d].contact \in K
    BY <1>1 DEF WithoutContacts, TypeOK
  <2>2. deal[d] \in DealRows /\ DealIn(deal[d])
    BY <2>1, IsolationByRows
  <2>3. CASE deal[d].contact = None
    <3>1. WithoutContacts(deal, K)[d] = [deal[d] EXCEPT !.contact = None]
      BY <2>1 DEF WithoutContacts, TypeOK
    <3> QED
      BY <1>1, <2>2, <2>3, <3>1 DEF DealRows
  <2>4. CASE deal[d].contact # None
    BY <2>1, <2>2, <2>4, WithoutContactsDeal DEF DealIn, ContactIn
  <2> QED
    BY <2>3, <2>4
<1>2. ASSUME NEW l \in Leads, WithoutContacts(lead, K)[l] # lead[l]
      PROVE  /\ Exists(lead[l]) /\ lead[l].org = o
             /\ WithoutContacts(lead, K)[l].org = o
  <2>1. Exists(lead[l]) /\ lead[l].contact \in K
    BY <1>2 DEF WithoutContacts, TypeOK
  <2>2. lead[l] \in LeadRows /\ LeadIn(lead[l])
    BY <2>1, IsolationByRows
  <2>3. CASE lead[l].contact = None
    <3>1. WithoutContacts(lead, K)[l] = [lead[l] EXCEPT !.contact = None]
      BY <2>1 DEF WithoutContacts, TypeOK
    <3> QED
      BY <1>2, <2>2, <2>3, <3>1 DEF LeadRows
  <2>4. CASE lead[l].contact # None
    BY <2>1, <2>2, <2>4, WithoutContactsLead DEF LeadIn, ContactIn
  <2> QED
    BY <2>3, <2>4
<1> QED
  BY <1>1, <1>2

LEMMA GrowthWritesOne ==
  ASSUME TypeOK,
         \/ \E c \in Companies, o \in Orgs : CreateCompany(c, o)
         \/ \E c \in Companies, k \in Contacts : CreateContact(k, c) \/ MoveContact(k, c)
         \/ \E p \in Pipelines, o \in Orgs : CreatePipeline(p, o)
         \/ \E p \in Pipelines, s \in Stages : CreateStage(s, p)
  PROVE  \A o, q \in Orgs : Writes(o) /\ Writes(q) => o = q
<1> USE DEF TypeOK, Row, Writes, CompanyIn, ContactIn, PipelineIn, StageIn, Exists
<1>1. ASSUME NEW c \in Companies, NEW o \in Orgs, CreateCompany(c, o)
      PROVE  \A q \in Orgs : Writes(q) => q = o
  BY <1>1 DEF CreateCompany
<1>2. ASSUME NEW c \in Companies, NEW k \in Contacts, CreateContact(k, c)
      PROVE  \A q \in Orgs : Writes(q) => q = company[c]
  BY <1>2 DEF CreateContact
<1>3. ASSUME NEW c \in Companies, NEW k \in Contacts, MoveContact(k, c)
      PROVE  \A q \in Orgs : Writes(q) => q = company[c]
  BY <1>3 DEF MoveContact
<1>4. ASSUME NEW p \in Pipelines, NEW o \in Orgs, CreatePipeline(p, o)
      PROVE  \A q \in Orgs : Writes(q) => q = o
  BY <1>4 DEF CreatePipeline
<1>5. ASSUME NEW p \in Pipelines, NEW s \in Stages, CreateStage(s, p)
      PROVE  \A q \in Orgs : Writes(q) => q = pipeline[p]
  BY <1>5 DEF CreateStage
<1> HIDE DEF Writes
<1> QED
  BY <1>1, <1>2, <1>3, <1>4, <1>5

LEMMA DeletionWritesOne ==
  ASSUME TypeOK,
         (\E p \in Pipelines : DeletePipeline(p)) \/ (\E s \in Stages : DeleteStage(s))
  PROVE  \A o, q \in Orgs : Writes(o) /\ Writes(q) => o = q
<1> USE DEF TypeOK, Row, Writes, PipelineIn, StageIn, Exists
<1>1. ASSUME NEW p \in Pipelines, DeletePipeline(p)
      PROVE  \A q \in Orgs : Writes(q) => q = pipeline[p]
  BY <1>1 DEF DeletePipeline
<1>2. ASSUME NEW s \in Stages, DeleteStage(s)
      PROVE  \A q \in Orgs : Writes(q) => q = pipeline[stage[s]]
  BY <1>2 DEF DeleteStage
<1> HIDE DEF Writes
<1> QED
  BY <1>1, <1>2

LEMMA DeleteContactWritesOne ==
  ASSUME TypeOK, ParentsThere, TenantIsolation, NEW k \in Contacts, DeleteContact(k)
  PROVE  \A q \in Orgs : Writes(q) => q = company[contact[k]]
<1> DEFINE o == company[contact[k]]
<1>1. o \in Orgs /\ \A x \in {k} : company[contact[x]] = o
  BY DEF DeleteContact, ParentsThere, TypeOK, Row, Exists
<1>2. /\ contact' = [contact EXCEPT ![k] = Gone]
      /\ deal' = WithoutContacts(deal, {k}) /\ lead' = WithoutContacts(lead, {k})
      /\ UNCHANGED <<company, pipeline, stage>>
  BY DEF DeleteContact
<1> HIDE DEF o
<1>3. /\ \A d \in Deals : deal'[d] # deal[d] => deal[d].org = o /\ deal'[d].org = o
      /\ \A l \in Leads : lead'[l] # lead[l] => lead[l].org = o /\ lead'[l].org = o
  BY <1>1, <1>2, ClearedAtHome
<1>4. \A x \in Contacts : contact'[x] # contact[x] => x = k /\ contact'[x] = Gone
  BY <1>2 DEF TypeOK
<1> QED
  BY <1>2, <1>3, <1>4 DEF Writes, ContactIn, DealOfOrg, LeadOfOrg, Exists, o

LEMMA DeleteCompanyWritesOne ==
  ASSUME TypeOK, TenantIsolation, NEW h \in Handlers, DeleteCompany(h)
  PROVE  \A q \in Orgs : Writes(q) => q = company[tx[h].company]
<1>1. PICK c \in Companies : c = tx[h].company /\ Exists(company[c])
  BY SaveTypes DEF DeleteCompany
<1> DEFINE o == company[c]
           K == {k \in Contacts : contact[k] = c}
           rows == WithoutContacts(lead, K)
<1>2. o \in Orgs /\ \A k \in K : company[contact[k]] = o
  BY <1>1 DEF TypeOK, Row, Exists
<1>3. /\ company' = [company EXCEPT ![c] = Gone]
      /\ contact' = [k \in Contacts |-> IF k \in K THEN Gone ELSE contact[k]]
      /\ deal' = WithoutContacts(deal, K)
      /\ lead' = [l \in Leads |-> IF l \in LiveLeads /\ rows[l].company = c
                                  THEN [rows[l] EXCEPT !.company = None] ELSE rows[l]]
      /\ UNCHANGED <<pipeline, stage>>
  BY <1>1 DEF DeleteCompany
<1>4. \A d \in Deals : deal'[d] # deal[d] => deal[d].org = o /\ deal'[d].org = o
  BY <1>2, <1>3, ClearedAtHome
<1>5. ASSUME NEW l \in Leads, lead'[l] # lead[l]
      PROVE  lead[l].org = o /\ lead'[l].org = o
  <2>1. CASE rows[l] # lead[l]
    <3>1. /\ Exists(lead[l]) /\ lead[l].org = o
          /\ rows[l].org = o
      BY <1>2, <2>1, ClearedAtHome
    <3>2. rows[l] \in LeadRows
      BY <3>1, WithoutContactsLead
    <3>3. lead'[l] \in {rows[l], [rows[l] EXCEPT !.company = None]}
      BY <1>3
    <3> HIDE DEF rows
    <3> QED
      BY <3>1, <3>2, <3>3 DEF LeadRows
  <2>2. CASE rows[l] = lead[l]
    <3>1. Exists(lead[l]) /\ lead[l].company = c /\ lead'[l] = [lead[l] EXCEPT !.company = None]
      BY <1>3, <1>5, <2>2 DEF LiveLeads
    <3>2. lead[l] \in LeadRows /\ LeadIn(lead[l])
      BY <3>1, IsolationByRows
    <3>3. lead[l].org = o
      BY <3>1, <3>2 DEF LeadIn, CompanyIn
    <3> QED
      BY <3>1, <3>2, <3>3 DEF LeadRows
  <2> QED
    BY <2>1, <2>2
<1> HIDE DEF rows
<1>6. \A k \in Contacts : contact'[k] # contact[k] => contact[k] = c /\ contact'[k] = Gone
  BY <1>3
<1>7. \A x \in Companies : company'[x] # company[x] => x = c /\ company'[x] = Gone
  BY <1>3 DEF TypeOK
<1>8. Gone \notin Orgs
  OBVIOUS
<1>9. ASSUME NEW q \in Orgs, Writes(q)
      PROVE  q = o
  <2>1. CASE \E x \in Companies : company'[x] # company[x] /\ (CompanyIn(x, q) \/ CompanyIn(x, q)')
    BY <1>7, <1>8, <2>1 DEF CompanyIn
  <2>2. CASE \E k \in Contacts : contact'[k] # contact[k] /\ (ContactIn(k, q) \/ ContactIn(k, q)')
    BY <1>6, <2>2 DEF ContactIn, Exists
  <2>3. CASE \E d \in Deals : deal'[d] # deal[d] /\ (DealOfOrg(d, q) \/ DealOfOrg(d, q)')
    BY <1>4, <2>3 DEF DealOfOrg
  <2>4. CASE \E l \in Leads : lead'[l] # lead[l] /\ (LeadOfOrg(l, q) \/ LeadOfOrg(l, q)')
    BY <1>5, <2>4 DEF LeadOfOrg
  <2> QED
    BY <1>3, <1>9, <2>1, <2>2, <2>3, <2>4 DEF Writes
<1> QED
  BY <1>1, <1>9

\* Writing a deal, or a lead, over a row of the same organization or a new one.
LEMMA DealWritesOne ==
  ASSUME TypeOK, NEW d \in Deals, NEW r, NEW o \in Orgs, deal' = [deal EXCEPT ![d] = r],
         UNCHANGED <<References, lead>>, Exists(deal[d]) => deal[d].org = o, Exists(r) => r.org = o
  PROVE  \A q \in Orgs : Writes(q) => q = o
<1>1. \A x \in Deals : deal'[x] # deal[x] => x = d /\ deal'[x] = r
  BY DEF TypeOK
<1> QED
  BY <1>1, SavesWriteOne DEF DealOfOrg, References, Exists

LEMMA LeadWritesOne ==
  ASSUME TypeOK, NEW l \in Leads, NEW r, NEW o \in Orgs, lead' = [lead EXCEPT ![l] = r],
         UNCHANGED <<References, deal>>, Exists(lead[l]) => lead[l].org = o, Exists(r) => r.org = o
  PROVE  \A q \in Orgs : Writes(q) => q = o
<1>1. \A x \in Leads : lead'[x] # lead[x] => x = l /\ lead'[x] = r
  BY DEF TypeOK
<1> QED
  BY <1>1, SavesWriteOne DEF LeadOfOrg, References, Exists

LEMMA SaveWritesOne ==
  ASSUME TypeOK, ConversionsAtHome, NEW h \in Handlers,
         \/ \E d \in Deals : CreateDeal(h, d) \/ ConvertLead(h, d)
         \/ \E l \in Leads : CreateLead(h, l)
         \/ UpdateDeal(h) \/ UpdateLead(h)
  PROVE  \E o \in Orgs : \A q \in Orgs : Writes(q) => q = o
<1>1. ASSUME NEW d \in Deals, CreateDeal(h, d)
      PROVE  \E o \in Orgs : \A q \in Orgs : Writes(q) => q = o
  <2>1. tx[h].row.org \in Orgs
    BY <1>1, SaveTypes DEF CreateDeal, DealRows
  <2>2. /\ deal[d] = Unborn /\ deal' = [deal EXCEPT ![d] = tx[h].row]
        /\ UNCHANGED <<References, lead>>
    BY <1>1 DEF CreateDeal, References
  <2> QED
    BY <2>1, <2>2, DealWritesOne DEF Exists
<1>2. ASSUME NEW l \in Leads, CreateLead(h, l)
      PROVE  \E o \in Orgs : \A q \in Orgs : Writes(q) => q = o
  <2>1. tx[h].row.org \in Orgs
    BY <1>2, SaveTypes DEF CreateLead, LeadRows
  <2>2. /\ lead[l] = Unborn /\ lead' = [lead EXCEPT ![l] = tx[h].row]
        /\ UNCHANGED <<References, deal>>
    BY <1>2 DEF CreateLead, References
  <2> QED
    BY <2>1, <2>2, LeadWritesOne DEF Exists
<1>3. CASE UpdateDeal(h)
  <2>1. PICK d \in Deals : d = tx[h].deal /\ Exists(deal[d])
    BY <1>3, SaveTypes DEF UpdateDeal
  <2>2. PICK r : /\ deal' = [deal EXCEPT ![d] = r] /\ r.org = deal[d].org
                 /\ UNCHANGED <<References, lead>>
    BY <1>3, <2>1 DEF UpdateDeal, References
  <2>3. deal[d].org \in Orgs
    BY <2>1 DEF TypeOK, Row, Exists, DealRows
  <2> QED
    BY <2>2, <2>3, DealWritesOne
<1>4. CASE UpdateLead(h)
  <2>1. PICK l \in Leads : l = tx[h].lead /\ Exists(lead[l])
    BY <1>4, SaveTypes DEF UpdateLead
  <2>2. PICK r : /\ lead' = [lead EXCEPT ![l] = r] /\ r.org = lead[l].org
                 /\ UNCHANGED <<References, deal>>
    BY <1>4, <2>1 DEF UpdateLead, References
  <2>3. lead[l].org \in Orgs
    BY <2>1 DEF TypeOK, Row, Exists, LeadRows
  <2> QED
    BY <2>2, <2>3, LeadWritesOne
<1>5. ASSUME NEW d \in Deals, ConvertLead(h, d)
      PROVE  \E o \in Orgs : \A q \in Orgs : Writes(q) => q = o
  <2>1. PICK l \in Leads :
          /\ Exists(lead[l]) /\ lead[l].org = tx[h].row.org
          /\ deal[d] = Unborn /\ deal' = [deal EXCEPT ![d] = tx[h].row]
          /\ lead' = [lead EXCEPT ![l] = [lead[l] EXCEPT !.status = "closed"]]
          /\ UNCHANGED References
    BY <1>5, SaveTypes DEF ConvertLead, ConversionsAtHome, References
  <2> DEFINE o == lead[l].org
  <2>2. lead[l] \in LeadRows
    BY <2>1 DEF TypeOK, Row, Exists
  <2>3. o \in Orgs /\ [lead[l] EXCEPT !.status = "closed"].org = o
    BY <2>2 DEF LeadRows
  <2>4. \A x \in Deals : deal'[x] # deal[x] => deal[x] = Unborn /\ deal'[x].org = o
    BY <2>1 DEF TypeOK
  <2>5. \A x \in Leads : lead'[x] # lead[x] => lead[x].org = o /\ lead'[x].org = o
    BY <2>1, <2>3 DEF TypeOK
  <2> HIDE DEF o
  <2> QED
    BY <2>1, <2>3, <2>4, <2>5, SavesWriteOne DEF DealOfOrg, LeadOfOrg, Exists
<1> QED
  BY <1>1, <1>2, <1>3, <1>4, <1>5

LEMMA OneTenantStep ==
  ASSUME Inv, ConversionsAtHome, [Next]_vars, NEW o \in Orgs, NEW q \in Orgs, Writes(o), Writes(q)
  PROVE  o = q
<1> USE DEF Inv
<1>1. CASE UNCHANGED <<References, deal, lead>>
  BY <1>1 DEF References, Writes
<1>2. ASSUME NEW k \in Contacts, DeleteContact(k)
      PROVE  o = q
  BY <1>2, DeleteContactWritesOne
<1>3. ASSUME NEW h \in Handlers, DeleteCompany(h)
      PROVE  o = q
  BY <1>3, DeleteCompanyWritesOne
<1>4. ASSUME NEW d \in Deals, DeleteDeal(d)
      PROVE  o = q
  <2>1. deal[d].org \in Orgs /\ ~Exists(Gone)
    BY <1>4 DEF DeleteDeal, TypeOK, Row, Exists, DealRows
  <2> QED
    BY <1>4, <2>1, DealWritesOne DEF DeleteDeal, References
<1>5. ASSUME NEW l \in Leads, DeleteLead(l)
      PROVE  o = q
  <2>1. lead[l].org \in Orgs /\ ~Exists(Gone)
    BY <1>5 DEF DeleteLead, TypeOK, Row, Exists, LeadRows
  <2> QED
    BY <1>5, <2>1, LeadWritesOne DEF DeleteLead, References
<1>6. ASSUME NEW h \in Handlers,
             \/ \E d \in Deals : CreateDeal(h, d) \/ ConvertLead(h, d)
             \/ \E l \in Leads : CreateLead(h, l)
             \/ UpdateDeal(h) \/ UpdateLead(h)
      PROVE  o = q
  BY <1>6, SaveWritesOne
<1>7. UNCHANGED Rows \/ UNCHANGED vars => UNCHANGED <<References, deal, lead>>
  BY DEF Rows, vars, References
<1> HIDE DEF Inv
<1>8. TypeOK
  BY DEF Inv
<1> QED
  BY <1>1, <1>2, <1>3, <1>4, <1>5, <1>6, <1>7, <1>8, GrowthWritesOne, DeletionWritesOne,
     StartsKeepRows DEF Next

-----------------------------------------------------------------------------
(* The theorems. *)

LEMMA InvInit == Init => Inv
  BY DEF Init, Inv, TypeOK, ParentsThere, TenantIsolation, SavesSafe, LiveDeals, LiveLeads, Exists,
     Row, Idle

LEMMA InvStep == Inv /\ [Next]_vars => Inv'
<1> SUFFICES ASSUME Inv, [Next]_vars
             PROVE  Inv'
  OBVIOUS
<1> USE DEF Inv
<1>1. TypeOK'
  BY TypeStep
<1>2. ParentsThere' /\ SafeStays
  BY ReferenceStep
<1>3. SavesSafe'
  BY <1>1, <1>2, RowStep, SaveStep
<1>4. TenantIsolation'
  BY <1>1, IsolationStep
<1> QED
  BY <1>1, <1>2, <1>3, <1>4

\* Every variable keeps its type: in particular the marks for unused and deleted
\* ids, and for columns an UPDATE leaves out, never reach a committed row.
THEOREM TypeCorrect == Spec => []TypeOK
<1>1. Inv => TypeOK
  BY DEF Inv
<1> QED
  BY <1>1, InvInit, InvStep, PTL DEF Spec

\* However the saves of all tenants' requests overlap with each other and with
\* deletions, a committed deal or lead refers to existing rows of its own
\* organization (_validate_references and the foreign keys together).
THEOREM Isolation == Spec => []TenantIsolation
<1>1. Inv => TenantIsolation
  BY DEF Inv
<1> QED
  BY <1>1, InvInit, InvStep, PTL DEF Spec

\* No commit writes rows of two organizations: the contacts that go with a company,
\* the stages that go with a pipeline, the references that are cleared and the deal
\* and lead of a conversion are all of the organization that asked, and no row is
\* handed from one to another.
THEOREM OneTenant == Spec => OneTenantAtATime
<1>1. Inv /\ ConversionsAtHome /\ [Next]_vars =>
        [\A o, q \in Orgs : Writes(o) /\ Writes(q) => o = q]_vars
  BY OneTenantStep
<1>2. Init => ConversionsAtHome
  BY DEF Init, ConversionsAtHome, Idle
<1>3. Inv /\ Inv' /\ ConversionsAtHome /\ [Next]_vars => ConversionsAtHome'
  BY RowStep, ConversionStep DEF Inv
<1> QED
  BY <1>1, <1>2, <1>3, InvInit, InvStep, PTL DEF Spec, OneTenantAtATime

LEMMA SequentialInit == Init => SequentialInv
  BY DEF Init, SequentialInv, OneSave, StagesFit, LiveDeals, Exists, CheckedStill, Idle

\* A deal that a step changes has lost its contact, is gone, or was written by a
\* save that had checked its references.
LEMMA ChangedDeal ==
  ASSUME Inv, SequentialInv, sequential, Next, NEW d \in Deals, Exists(deal'[d]),
         deal[d] # deal'[d], deal'[d].contact # None
  PROVE  contact'[deal'[d].contact] = deal'[d].company
<1>1. Idle.op = "idle" /\ \A h \in Handlers : CheckedStill(tx[h])
  BY DEF SequentialInv, Idle
<1>2. ASSUME NEW K, deal' = WithoutContacts(deal, K)
      PROVE  FALSE
  <2>1. deal'[d] = IF Exists(deal[d]) /\ deal[d].contact \in K
                   THEN [deal[d] EXCEPT !.contact = None] ELSE deal[d]
    BY <1>2 DEF WithoutContacts, Inv, TypeOK
  <2>2. Exists(deal[d]) /\ deal[d].contact \in K
    BY <2>1
  <2>3. Exists(deal[d]) => deal[d] \in DealRows
    BY DEF Inv, TypeOK, Row, Exists
  <2> QED
    BY <2>1, <2>2, <2>3 DEF DealRows
<1>3. ASSUME NEW e \in Deals, NEW row, deal' = [deal EXCEPT ![e] = row], DealReferences(row),
             UNCHANGED contact
      PROVE  contact'[deal'[d].contact] = deal'[d].company
  <2>1. deal'[d] = row
    BY <1>3 DEF Inv, TypeOK
  <2> QED
    BY <1>3, <2>1 DEF DealReferences
<1>4. CASE (\E k \in Contacts : DeleteContact(k)) \/ (\E h \in Handlers : DeleteCompany(h))
  BY <1>2, <1>4 DEF DeleteContact, DeleteCompany
<1>5. CASE \E e \in Deals : DeleteDeal(e)
  BY <1>5 DEF DeleteDeal, Exists, Inv, TypeOK
<1>6. ASSUME NEW h \in Handlers, NEW e \in Deals, CreateDeal(h, e) \/ ConvertLead(h, e)
      PROVE  contact'[deal'[d].contact] = deal'[d].company
  <2>1. DealReferences(tx[h].row)
    BY <1>1, <1>6 DEF CheckedStill, CreateDeal, ConvertLead
  <2> QED
    BY <1>3, <1>6, <2>1 DEF CreateDeal, ConvertLead
<1>7. ASSUME NEW h \in Handlers, UpdateDeal(h)
      PROVE  contact'[deal'[d].contact] = deal'[d].company
  <2>1. DealReferences(UpdatedDeal(tx[h].deal, tx[h].change)) /\ tx[h].deal \in Deals
    BY <1>1, <1>7, SaveTypes DEF CheckedStill, UpdateDeal, Inv
  <2>2. deal' = [deal EXCEPT ![tx[h].deal] = UpdatedDeal(tx[h].deal, tx[h].change)]
    BY <1>7 DEF UpdateDeal, UpdatedDeal
  <2> QED
    BY <1>3, <1>7, <2>1, <2>2 DEF UpdateDeal
<1> QED
  BY <1>4, <1>5, <1>6, <1>7, StartsKeepRows
     DEF Next, Rows, CreateCompany, CreateContact, MoveContact, CreatePipeline, CreateStage,
         DeleteStage, DeletePipeline, CreateLead, UpdateLead, DeleteLead

\* While requests come one at a time a deal's stage is of its pipeline, and a save
\* leaves the deal with a contact of its company: for any records, with deletions
\* and failing saves in between.
THEOREM CoherentWrites == Spec => CoherentDeals
<1>1. Inv /\ SequentialInv /\ [Next]_vars /\ SequentialInv' =>
        [sequential => \A d \in Deals : Exists(deal'[d]) =>
           LET r == deal'[d]
           IN  /\ stage'[r.stage] = r.pipeline
               /\ deal[d] # r /\ r.contact # None => contact'[r.contact] = r.company]_vars
  <2> SUFFICES ASSUME Inv, SequentialInv, [Next]_vars, SequentialInv', ~UNCHANGED vars, sequential,
                      NEW d \in Deals, Exists(deal'[d])
               PROVE  /\ stage'[deal'[d].stage] = deal'[d].pipeline
                      /\ deal[d] # deal'[d] /\ deal'[d].contact # None =>
                           contact'[deal'[d].contact] = deal'[d].company
    OBVIOUS
  <2>1. sequential'
    BY SequentialIsFixed
  <2>2. stage'[deal'[d].stage] = deal'[d].pipeline
    BY <2>1 DEF SequentialInv, StagesFit, LiveDeals, Exists
  <2> QED
    BY <2>2, ChangedDeal
<1>2. Inv /\ SequentialInv /\ [Next]_vars => SequentialInv'
  BY SequentialStep DEF Inv
<1> QED
  BY <1>1, <1>2, InvInit, InvStep, SequentialInit, PTL DEF Spec, CoherentDeals

\* While requests come one at a time, a lead is converted only while it is open.
THEOREM OpenLeadsOnly == Spec => OpenLeadsConvert
<1>1. SequentialInv =>
        [sequential => \A h \in Handlers :
           tx[h].op = "convertLead" /\ deal' # deal /\ tx'[h] = Idle =>
               lead[tx[h].lead].status = "open"]_vars
  BY DEF SequentialInv, CheckedStill
<1>2. Inv /\ SequentialInv /\ [Next]_vars => SequentialInv'
  BY SequentialStep DEF Inv
<1> QED
  BY <1>1, <1>2, InvInit, InvStep, SequentialInit, PTL DEF Spec, OpenLeadsConvert

\* While requests come one at a time, the deletion of a company finds no contact
\* to take along: has_contacts still tells the truth when it commits.
THEOREM ContactsOutlive == Spec => CompaniesKeepContacts
<1>1. Inv /\ SequentialInv /\ [Next]_vars =>
        [sequential /\ company' # company =>
           \A k \in Contacts : Exists(contact[k]) => Exists(contact'[k])]_vars
  <2> SUFFICES ASSUME Inv, SequentialInv, Next, sequential, company' # company,
                      NEW k \in Contacts, Exists(contact[k])
               PROVE  Exists(contact'[k])
    BY DEF vars
  <2>1. \/ UNCHANGED contact
        \/ \E h \in Handlers : DeleteCompany(h)
    BY ReferenceSteps DEF References, CreateCompany, CreateContact, MoveContact, DeleteContact,
       CreatePipeline, CreateStage, DeletePipeline, DeleteStage
  <2>2. ASSUME NEW h \in Handlers, DeleteCompany(h)
        PROVE  Exists(contact'[k])
    <3>1. contact[k] # tx[h].company
      BY <2>2 DEF SequentialInv, CheckedStill, DeleteCompany
    <3> QED
      BY <2>2, <3>1 DEF DeleteCompany
  <2> QED
    BY <2>1, <2>2
<1>2. Inv /\ SequentialInv /\ [Next]_vars => SequentialInv'
  BY SequentialStep DEF Inv
<1> QED
  BY <1>1, <1>2, InvInit, InvStep, SequentialInit, PTL DEF Spec, CompaniesKeepContacts
=============================================================================
