---------------------------- MODULE SalesRecords ----------------------------
(***************************************************************************)
(* Companies, contacts, pipelines, stages, deals and leads of all the      *)
(* tenants (organizations) of one database: app/services/{company,contact, *)
(* pipeline,deal,lead}.py, the repositories they call and the foreign keys *)
(* of app/models.                                                          *)
(*                                                                         *)
(* A save reads rows, checks the references it would leave and then writes *)
(* and commits; nothing locks what it read (READ COMMITTED), so other      *)
(* transactions commit in between.  A save is two steps, the second atomic *)
(* with the foreign keys' check.  A handler whose only check is that a row *)
(* exists is one step: a row that goes in between fails its write, and a   *)
(* row's organization never changes.  Fields other than references and the *)
(* lead's status, the assigned user and the unique names are left out.     *)
(***************************************************************************)
CONSTANTS
    Orgs, Companies, Contacts, Pipelines, Stages, Deals, Leads,  \* ids
    Unborn, Gone,   \* an id not used yet, and one whose row was deleted
    None,           \* SQL NULL
    Keep,           \* a column the UPDATE does not name
    Handlers        \* threads serving saves

\* open: new, qualified or unqualified; closed: converted or lost.
Statuses == {"open", "closed"}

VARIABLES
    company,    \* organization of each company
    contact,    \* company of each contact
    pipeline,   \* organization of each pipeline
    stage,      \* pipeline of each stage
    deal, lead, \* rows
    tx,         \* the save each handler has read and checked, not yet written
    sequential  \* requests come one at a time

vars == <<company, contact, pipeline, stage, deal, lead, tx, sequential>>

Row(S) == S \cup {Unborn, Gone}
Exists(x) == x \notin {Unborn, Gone}

DealRows == [org : Orgs, company : Companies, contact : Contacts \cup {None},
             pipeline : Pipelines, stage : Stages]
LeadRows == [org : Orgs, company : Companies \cup {None},
             contact : Contacts \cup {None}, status : Statuses]
ASSUME MarksAssumption ==
    /\ Unborn # Gone
    /\ \A m \in {Unborn, Gone} : m \notin Orgs /\ m \notin Companies /\ m \notin Pipelines
    /\ None \notin Companies /\ None \notin Contacts
    /\ Keep \notin Companies /\ Keep \notin Contacts /\ Keep \notin Pipelines
    /\ Keep \notin Stages /\ Keep \notin Statuses /\ Keep # None
    /\ \A m \in {Unborn, Gone} : m \notin DealRows /\ m \notin LeadRows

DealChanges == [company : Companies \cup {Keep}, contact : Contacts \cup {None, Keep},
                pipeline : Pipelines \cup {Keep}, stage : Stages \cup {Keep}]
LeadChanges == [company : Companies \cup {None, Keep}, contact : Contacts \cup {None, Keep},
                status : Statuses \cup {Keep}]

Idle == [op |-> "idle"]
Saves == [op : {"createDeal"}, row : DealRows]
    \cup [op : {"updateDeal"}, deal : Deals, change : DealChanges]
    \cup [op : {"createLead"}, row : LeadRows]
    \cup [op : {"updateLead"}, lead : Leads, change : LeadChanges]
    \cup [op : {"convertLead"}, lead : Leads, row : DealRows]
    \cup [op : {"deleteCompany"}, company : Companies]

TypeOK ==
    /\ company \in [Companies -> Row(Orgs)]
    /\ contact \in [Contacts -> Row(Companies)]
    /\ pipeline \in [Pipelines -> Row(Orgs)]
    /\ stage \in [Stages -> Row(Pipelines)]
    /\ deal \in [Deals -> Row(DealRows)]
    /\ lead \in [Leads -> Row(LeadRows)]
    /\ tx \in [Handlers -> Saves \cup {Idle}]
    /\ sequential \in BOOLEAN

Init ==
    /\ company = [c \in Companies |-> Unborn]
    /\ contact = [k \in Contacts |-> Unborn]
    /\ pipeline = [p \in Pipelines |-> Unborn]
    /\ stage = [s \in Stages |-> Unborn]
    /\ deal = [d \in Deals |-> Unborn]
    /\ lead = [l \in Leads |-> Unborn]
    /\ tx = [h \in Handlers |-> Idle]
    /\ sequential \in BOOLEAN

\* Another request may start.
MayStart == sequential => \A h \in Handlers : tx[h] = Idle

LiveDeals == {d \in Deals : Exists(deal[d])}
LiveLeads == {l \in Leads : Exists(lead[l])}

-----------------------------------------------------------------------------
(* Companies and contacts. *)

CreateCompany(c, o) ==
    /\ MayStart
    /\ company[c] = Unborn
    /\ company' = [company EXCEPT ![c] = o]
    /\ UNCHANGED <<contact, pipeline, stage, deal, lead, tx, sequential>>

CreateContact(k, c) ==
    /\ MayStart
    /\ contact[k] = Unborn /\ Exists(company[c])
    /\ contact' = [contact EXCEPT ![k] = c]
    /\ UNCHANGED <<company, pipeline, stage, deal, lead, tx, sequential>>

\* Faulty variant: the new company is looked up in every organization.
MoveContactAnywhere(k, c) ==
    /\ MayStart
    /\ Exists(contact[k]) /\ Exists(company[c])
    /\ contact' = [contact EXCEPT ![k] = c]
    /\ UNCHANGED <<company, pipeline, stage, deal, lead, tx, sequential>>

\* update_contact: to any company of the organization, whatever the deals and
\* leads of the contact say.
MoveContact(k, c) ==
    /\ MayStart
    /\ Exists(contact[k]) /\ company[c] = company[contact[k]]
    /\ contact' = [contact EXCEPT ![k] = c]
    /\ UNCHANGED <<company, pipeline, stage, deal, lead, tx, sequential>>

\* contact_id of deals and leads: ON DELETE SET NULL.
WithoutContacts(rows, K) ==
    [x \in DOMAIN rows |->
        IF Exists(rows[x]) /\ rows[x].contact \in K
        THEN [rows[x] EXCEPT !.contact = None] ELSE rows[x]]

DeleteContact(k) ==
    /\ MayStart
    /\ Exists(contact[k])
    /\ contact' = [contact EXCEPT ![k] = Gone]
    /\ deal' = WithoutContacts(deal, {k})
    /\ lead' = WithoutContacts(lead, {k})
    /\ UNCHANGED <<company, pipeline, stage, tx, sequential>>

Start(h, save) ==
    /\ MayStart
    /\ tx[h] = Idle
    /\ tx' = [tx EXCEPT ![h] = save]
    /\ UNCHANGED <<company, contact, pipeline, stage, deal, lead, sequential>>

\* Faulty variant: no has_contacts.
BeginDeleteCompanyUnchecked(h, c) ==
    /\ Exists(company[c])
    /\ Start(h, [op |-> "deleteCompany", company |-> c])

\* delete_company reads that no contact is left ...
BeginDeleteCompany(h, c) ==
    /\ Exists(company[c])
    /\ \A k \in Contacts : contact[k] # c
    /\ Start(h, [op |-> "deleteCompany", company |-> c])

\* ... and deletes, with the contacts there are by now (delete-orphan, CASCADE).
\* Leads lose the company (SET NULL); deals prevent it (RESTRICT).
DeleteCompany(h) ==
    LET c == tx[h].company
        theirs == {k \in Contacts : contact[k] = c}
        rows == WithoutContacts(lead, theirs)
    IN  /\ tx[h].op = "deleteCompany"
        /\ Exists(company[c])
        /\ \A d \in LiveDeals : deal[d].company # c
        /\ company' = [company EXCEPT ![c] = Gone]
        /\ contact' = [k \in Contacts |-> IF k \in theirs THEN Gone ELSE contact[k]]
        /\ deal' = WithoutContacts(deal, theirs)
        /\ lead' = [l \in Leads |->
                      IF l \in LiveLeads /\ rows[l].company = c
                      THEN [rows[l] EXCEPT !.company = None] ELSE rows[l]]
        /\ tx' = [tx EXCEPT ![h] = Idle]
        /\ UNCHANGED <<pipeline, stage, sequential>>

-----------------------------------------------------------------------------
(* Pipelines and stages. *)

CreatePipeline(p, o) ==
    /\ MayStart
    /\ pipeline[p] = Unborn
    /\ pipeline' = [pipeline EXCEPT ![p] = o]
    /\ UNCHANGED <<company, contact, stage, deal, lead, tx, sequential>>

CreateStage(s, p) ==
    /\ MayStart
    /\ stage[s] = Unborn /\ Exists(pipeline[p])
    /\ stage' = [stage EXCEPT ![s] = p]
    /\ UNCHANGED <<company, contact, pipeline, deal, lead, tx, sequential>>

\* A deal prevents the deletion of its stage and of its pipeline (RESTRICT).
DeleteStage(s) ==
    /\ MayStart
    /\ Exists(stage[s])
    /\ \A d \in LiveDeals : deal[d].stage # s
    /\ stage' = [stage EXCEPT ![s] = Gone]
    /\ UNCHANGED <<company, contact, pipeline, deal, lead, tx, sequential>>

\* The stages go with the pipeline.
DeletePipeline(p) ==
    /\ MayStart
    /\ Exists(pipeline[p])
    /\ \A d \in LiveDeals : deal[d].pipeline # p /\ stage[deal[d].stage] # p
    /\ pipeline' = [pipeline EXCEPT ![p] = Gone]
    /\ stage' = [s \in Stages |-> IF stage[s] = p THEN Gone ELSE stage[s]]
    /\ UNCHANGED <<company, contact, deal, lead, tx, sequential>>
-----------------------------------------------------------------------------
(* References a save leaves behind, as it reads them. *)

\* Faulty variant: each reference is looked up, their combination is not.
DealReferencesApart(r) ==
    /\ company[r.company] = r.org
    /\ r.contact # None => Exists(contact[r.contact]) /\ company[contact[r.contact]] = r.org
    /\ pipeline[r.pipeline] = r.org
    /\ Exists(stage[r.stage]) /\ pipeline[stage[r.stage]] = r.org

\* _validate_references of deals.  A contact is of its company's organization.
DealReferences(r) ==
    /\ company[r.company] = r.org
    /\ r.contact # None => contact[r.contact] = r.company
    /\ pipeline[r.pipeline] = r.org
    /\ stage[r.stage] = r.pipeline

\* _validate_references of leads.
LeadReferences(r) ==
    /\ r.company # None => company[r.company] = r.org
    /\ r.contact # None => /\ Exists(contact[r.contact])
                           /\ company[contact[r.contact]] = r.org
    /\ r.company # None /\ r.contact # None => contact[r.contact] = r.company

\* The rows a row or a change refers to are still there: the foreign keys.
DealKeys(r) ==
    /\ r.company # Keep => Exists(company[r.company])
    /\ r.contact \notin {None, Keep} => Exists(contact[r.contact])
    /\ r.pipeline # Keep => Exists(pipeline[r.pipeline])
    /\ r.stage # Keep => Exists(stage[r.stage])

LeadKeys(r) ==
    /\ r.company \notin {None, Keep} => Exists(company[r.company])
    /\ r.contact \notin {None, Keep} => Exists(contact[r.contact])

\* The UPDATE names the columns whose value is not the one that was read.
Changed(new, old) == IF new = old THEN Keep ELSE new

\* Faulty variant: the fields the request leaves out are written as NULL.
AfterUnset(change, now) == IF change = Keep THEN None ELSE change

After(change, now) == IF change = Keep THEN now ELSE change

-----------------------------------------------------------------------------
(* Deals. *)

BeginCreateDeal(h, r) ==
    /\ DealReferences(r)
    /\ Start(h, [op |-> "createDeal", row |-> r])

CreateDeal(h, d) ==
    /\ tx[h].op = "createDeal"
    /\ deal[d] = Unborn /\ DealKeys(tx[h].row)
    /\ deal' = [deal EXCEPT ![d] = tx[h].row]
    /\ tx' = [tx EXCEPT ![h] = Idle]
    /\ UNCHANGED <<company, contact, pipeline, stage, lead, sequential>>

\* r is the row as it was read with the request's fields in it.
BeginUpdateDeal(h, d, r) ==
    /\ Exists(deal[d]) /\ r.org = deal[d].org
    /\ DealReferences(r)
    /\ Start(h, [op |-> "updateDeal", deal |-> d, change |->
                   [company |-> Changed(r.company, deal[d].company),
                    contact |-> Changed(r.contact, deal[d].contact),
                    pipeline |-> Changed(r.pipeline, deal[d].pipeline),
                    stage |-> Changed(r.stage, deal[d].stage)]])

UpdateDeal(h) ==
    LET d == tx[h].deal
        change == tx[h].change
    IN  /\ tx[h].op = "updateDeal"
        /\ Exists(deal[d]) /\ DealKeys(change)
        /\ deal' = [deal EXCEPT ![d] =
                      [org |-> deal[d].org,
                       company |-> After(change.company, deal[d].company),
                       contact |-> After(change.contact, deal[d].contact),
                       pipeline |-> After(change.pipeline, deal[d].pipeline),
                       stage |-> After(change.stage, deal[d].stage)]]
        /\ tx' = [tx EXCEPT ![h] = Idle]
        /\ UNCHANGED <<company, contact, pipeline, stage, lead, sequential>>

DeleteDeal(d) ==
    /\ MayStart
    /\ Exists(deal[d])
    /\ deal' = [deal EXCEPT ![d] = Gone]
    /\ UNCHANGED <<company, contact, pipeline, stage, lead, tx, sequential>>

-----------------------------------------------------------------------------
(* Leads. *)

BeginCreateLead(h, r) ==
    /\ LeadReferences(r)
    /\ Start(h, [op |-> "createLead", row |-> r])

CreateLead(h, l) ==
    /\ tx[h].op = "createLead"
    /\ lead[l] = Unborn /\ LeadKeys(tx[h].row)
    /\ lead' = [lead EXCEPT ![l] = tx[h].row]
    /\ tx' = [tx EXCEPT ![h] = Idle]
    /\ UNCHANGED <<company, contact, pipeline, stage, deal, sequential>>

\* The status may be set to any other: converted without a deal, or reopened.
BeginUpdateLead(h, l, r) ==
    /\ Exists(lead[l]) /\ r.org = lead[l].org
    /\ LeadReferences(r)
    /\ Start(h, [op |-> "updateLead", lead |-> l, change |->
                   [company |-> Changed(r.company, lead[l].company),
                    contact |-> Changed(r.contact, lead[l].contact),
                    status |-> Changed(r.status, lead[l].status)]])

UpdateLead(h) ==
    LET l == tx[h].lead
        change == tx[h].change
    IN  /\ tx[h].op = "updateLead"
        /\ Exists(lead[l]) /\ LeadKeys(change)
        /\ lead' = [lead EXCEPT ![l] =
                      [org |-> lead[l].org,
                       company |-> After(change.company, lead[l].company),
                       contact |-> After(change.contact, lead[l].contact),
                       status |-> After(change.status, lead[l].status)]]
        /\ tx' = [tx EXCEPT ![h] = Idle]
        /\ UNCHANGED <<company, contact, pipeline, stage, deal, sequential>>

\* The deal a lead converts to.
DealOf(l, p, s) ==
    [org |-> lead[l].org, company |-> lead[l].company, contact |-> lead[l].contact,
     pipeline |-> p, stage |-> s]

\* Faulty variant: a closed lead is converted too.
BeginConvertAny(h, l, p, s) ==
    /\ Exists(lead[l])
    /\ lead[l].company # None
    /\ DealReferences(DealOf(l, p, s))
    /\ Start(h, [op |-> "convertLead", lead |-> l, row |-> DealOf(l, p, s)])

BeginConvertLead(h, l, p, s) ==
    /\ Exists(lead[l])
    /\ lead[l].status = "open" /\ lead[l].company # None
    /\ DealReferences(DealOf(l, p, s))
    /\ Start(h, [op |-> "convertLead", lead |-> l, row |-> DealOf(l, p, s)])

\* The deal and the lead's status, in one commit.
ConvertLead(h, d) ==
    LET l == tx[h].lead
    IN  /\ tx[h].op = "convertLead"
        /\ deal[d] = Unborn /\ DealKeys(tx[h].row)
        /\ Exists(lead[l])
        /\ deal' = [deal EXCEPT ![d] = tx[h].row]
        /\ lead' = [lead EXCEPT ![l] = [lead[l] EXCEPT !.status = "closed"]]
        /\ tx' = [tx EXCEPT ![h] = Idle]
        /\ UNCHANGED <<company, contact, pipeline, stage, sequential>>

DeleteLead(l) ==
    /\ MayStart
    /\ Exists(lead[l])
    /\ lead' = [lead EXCEPT ![l] = Gone]
    /\ UNCHANGED <<company, contact, pipeline, stage, deal, tx, sequential>>

\* A constraint, a lost connection or a restart: the transaction is rolled back.
Rollback(h) ==
    /\ tx[h] # Idle
    /\ tx' = [tx EXCEPT ![h] = Idle]
    /\ UNCHANGED <<company, contact, pipeline, stage, deal, lead, sequential>>

-----------------------------------------------------------------------------
Next ==
    \/ \E c \in Companies :
         \/ \E o \in Orgs : CreateCompany(c, o)
         \/ \E k \in Contacts : CreateContact(k, c) \/ MoveContact(k, c)
         \/ \E h \in Handlers : BeginDeleteCompany(h, c)
    \/ \E k \in Contacts : DeleteContact(k)
    \/ \E p \in Pipelines :
         \/ \E o \in Orgs : CreatePipeline(p, o)
         \/ \E s \in Stages : CreateStage(s, p)
         \/ DeletePipeline(p)
    \/ \E s \in Stages : DeleteStage(s)
    \/ \E d \in Deals : DeleteDeal(d)
    \/ \E l \in Leads : DeleteLead(l)
    \/ \E h \in Handlers :
         \/ DeleteCompany(h) \/ UpdateDeal(h) \/ UpdateLead(h) \/ Rollback(h)
         \/ \E r \in DealRows :
              \/ BeginCreateDeal(h, r)
              \/ \E d \in Deals : BeginUpdateDeal(h, d, r)
         \/ \E r \in LeadRows :
              \/ BeginCreateLead(h, r)
              \/ \E l \in Leads : BeginUpdateLead(h, l, r)
         \/ \E d \in Deals : CreateDeal(h, d) \/ ConvertLead(h, d)
         \/ \E l \in Leads :
              \/ CreateLead(h, l)
              \/ \E p \in Pipelines, s \in Stages : BeginConvertLead(h, l, p, s)

Spec == Init /\ [][Next]_vars

-----------------------------------------------------------------------------
(* Properties. *)

\* The row is there and of organization o; contacts and stages by their parents.
CompanyIn(c, o) == company[c] = o
ContactIn(k, o) == Exists(contact[k]) /\ company[contact[k]] = o
PipelineIn(p, o) == pipeline[p] = o
StageIn(s, o) == Exists(stage[s]) /\ pipeline[stage[s]] = o
DealOfOrg(d, o) == Exists(deal[d]) /\ deal[d].org = o
LeadOfOrg(l, o) == Exists(lead[l]) /\ lead[l].org = o

\* Whatever the saves that overlap, a committed deal or lead refers to rows that
\* exist and are of its own organization: no tenant sees another's records.
TenantIsolation ==
    /\ \A d \in LiveDeals :
         LET r == deal[d]
         IN  /\ CompanyIn(r.company, r.org)
             /\ r.contact # None => ContactIn(r.contact, r.org)
             /\ PipelineIn(r.pipeline, r.org)
             /\ StageIn(r.stage, r.org)
    /\ \A l \in LiveLeads :
         LET r == lead[l]
         IN  /\ r.company # None => CompanyIn(r.company, r.org)
             /\ r.contact # None => ContactIn(r.contact, r.org)

\* The step writes or deletes a row that is organization o's before or after it.
Writes(o) ==
    \/ \E c \in Companies : company'[c] # company[c] /\ (CompanyIn(c, o) \/ CompanyIn(c, o)')
    \/ \E k \in Contacts : contact'[k] # contact[k] /\ (ContactIn(k, o) \/ ContactIn(k, o)')
    \/ \E p \in Pipelines : pipeline'[p] # pipeline[p] /\ (PipelineIn(p, o) \/ PipelineIn(p, o)')
    \/ \E s \in Stages : stage'[s] # stage[s] /\ (StageIn(s, o) \/ StageIn(s, o)')
    \/ \E d \in Deals : deal'[d] # deal[d] /\ (DealOfOrg(d, o) \/ DealOfOrg(d, o)')
    \/ \E l \in Leads : lead'[l] # lead[l] /\ (LeadOfOrg(l, o) \/ LeadOfOrg(l, o)')

\* No commit writes rows of two organizations, its cascades and the references it
\* clears included, and none hands a row from one organization to another.
OneTenantAtATime == [][\A o, q \in Orgs : Writes(o) /\ Writes(q) => o = q]_vars

\* While requests come one at a time, what a deal's save writes is coherent: the
\* stage is of the pipeline, and stays so whatever becomes of the other rows; the
\* contact is of the company when the deal is saved (a later move of the contact
\* may separate them).
CoherentDeals ==
    [][sequential => \A d \in Deals : Exists(deal'[d]) =>
         LET r == deal'[d]
         IN  /\ stage'[r.stage] = r.pipeline
             /\ deal[d] # r /\ r.contact # None => contact'[r.contact] = r.company]_vars

\* While requests come one at a time, only an open lead is converted: never a
\* second time, nor a lost one, unless it was reopened.
OpenLeadsConvert ==
    [][sequential => \A h \in Handlers :
         tx[h].op = "convertLead" /\ deal' # deal /\ tx'[h] = Idle =>
             lead[tx[h].lead].status = "open"]_vars

\* LeadConversionConflictError, "a lead has already been converted": with
\* overlapping requests too, a conversion finds its lead open when it commits.
LeadConvertsOnce ==
    [][\A h \in Handlers :
         tx[h].op = "convertLead" /\ deal' # deal /\ tx'[h] = Idle =>
             lead[tx[h].lead].status = "open"]_vars

\* While requests come one at a time, deleting a company never takes contacts
\* with it, whatever the cascades declared on them.
CompaniesKeepContacts ==
    [][sequential /\ company' # company => \A k \in Contacts : Exists(contact[k]) => Exists(contact'[k])]_vars

=============================================================================
