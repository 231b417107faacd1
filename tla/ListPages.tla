----------------------------- MODULE ListPages -----------------------------
(***************************************************************************)
(* The list pages of the workspace: hooks/use-paginated-resource.ts, which *)
(* loads one page of rows again each time its query changes or a save      *)
(* succeeded, and the pages that use it or spell out the same effect.      *)
(* Answers of the server come in any order.  A query is a page number and  *)
(* the filters applied; rows are told apart by the edition of the          *)
(* collection they were read at, not by their columns.                     *)
(***************************************************************************)
EXTENDS Naturals, FiniteSets

CONSTANTS
    Pages,       \* the pages that may be open
    Rows,        \* rows whose edit form or delete button the user may use
    MaxPage,     \* bound: pages of the collection
    MaxEffects,  \* bound: loads started in one behaviour
    MaxEdition   \* bound: commits to the collection


VARIABLES
    listPage,   \* the page that is open
    query,      \* page number and filters of the load callback
    effect,     \* loads started: isActive belongs to the last one
    loads,      \* list requests in flight
    shown,      \* items and meta: query and edition of the answer, its pages
    loading,    \* isLoading
    failed,     \* error
    form,       \* the form that is open: "closed", "create" or the row edited
    slots,      \* isSaving, isUploading, isDeletingId: "free", "all" or a row
    saves,      \* save requests in flight
    own,        \* latest edition a save of this page was told it made
    coll        \* the collection as stored: editions so far, and its pages

listVars == <<listPage, query, effect, loads, shown, loading, failed, form,
              slots, saves, own, coll>>

\* What a page has besides the hook: filters; whether it turns pages; whether
\* it loads without a filter; whether a filter form applied again loads again;
\* whether it offers to try again; and its saves, each with the flag that holds off another.
Page(filters, saveSlots) ==
    [filters |-> filters, turns |-> TRUE, always |-> TRUE, fresh |-> FALSE,
     retries |-> TRUE, saves |-> saveSlots]
Creates == [create |-> "isSaving"]

ContactsWorkspace   == Page({"search", "companyId"}, Creates)
CompaniesWorkspace  == Page({"search", "industry"}, Creates)
LeadsWorkspace      == Page({"search", "status"}, Creates)
DealsWorkspace      == Page({"search", "status"}, Creates)
TasksWorkspace      == Page({"search", "status", "assignedToMe"}, Creates)
ActivitiesWorkspace == Page({"type", "completed"}, Creates)
NotesWorkspace      == Page({"search"}, Creates)
TagsWorkspace       == Page({"search"}, Creates)
PipelinesWorkspace  == Page({"search"}, Creates)
UsersSettings       == Page({"search"}, [create |-> "isSaving", update |-> "isSaving"])
AuditLogSettings    == [Page({"filters"}, <<>>) EXCEPT !.fresh = TRUE]
RolesSettings       ==
    [Page({}, [create |-> "isSaving", update |-> "isSaving", delete |-> "isSaving"])
        EXCEPT !.turns = FALSE]
AttachmentPanel     == Page({}, [create |-> "isUploading", delete |-> "isDeletingId"])
SearchWorkspace     ==
    [Page({"query"}, <<>>) EXCEPT !.turns = FALSE, !.always = FALSE]

\* The options of a form's select boxes: loaded once, no retry.
CompanyOptions  == [Page({}, <<>>) EXCEPT !.turns = FALSE, !.retries = FALSE]
ContactOptions  == CompanyOptions
LeadOptions     == CompanyOptions
PipelineOptions == CompanyOptions

AllPages == {ContactsWorkspace, CompaniesWorkspace, LeadsWorkspace, DealsWorkspace,
             TasksWorkspace, ActivitiesWorkspace, NotesWorkspace, TagsWorkspace,
             PipelinesWorkspace, UsersSettings, AuditLogSettings, RolesSettings,
             AttachmentPanel, SearchWorkspace, CompanyOptions, ContactOptions,
             LeadOptions, PipelineOptions}

ASSUME ListAssumption ==
    /\ Pages \subseteq AllPages
    /\ MaxPage \in Nat \ {0} /\ MaxEffects \in Nat \ {0} /\ MaxEdition \in Nat

-----------------------------------------------------------------------------
Waiting == [state |-> "waiting"]
Refused == [state |-> "refused"]
Answer(edition, pages) == [state |-> "answered", edition |-> edition, pages |-> pages]

Query == [page : 1..MaxPage, filters : SUBSET UNION {p.filters : p \in Pages}]
SaveOps == {"create", "update", "delete"}
SlotOf(op) == listPage.saves[op]
Asks(q) == listPage.always \/ q.filters # {}

\* Bound: every request under way can still start the load it may end with.
Room == effect + Cardinality(saves) < MaxEffects

\* One run of the hook's effect: the previous run is no longer active.
Load(q) ==
    /\ query' = q
    /\ effect' = effect + 1
    /\ IF Asks(q)
       THEN /\ loads' = loads \cup {[run |-> effect + 1, query |-> q, answer |-> Waiting]}
            /\ loading' = TRUE
       ELSE UNCHANGED <<loads, loading>>

FirstQuery == [page |-> 1, filters |-> {}]

Opened(p) ==
    /\ listPage = p
    /\ query = FirstQuery
    /\ effect = 1
    /\ loads = IF p.always THEN {[run |-> 1, query |-> FirstQuery, answer |-> Waiting]} ELSE {}
    /\ loading = p.always
    /\ shown = [query |-> FirstQuery, edition |-> 0, pages |-> 0]
    /\ failed = FALSE
    /\ form = "closed"
    /\ slots = [s \in {p.saves[op] : op \in DOMAIN p.saves} |-> "free"]
    /\ saves = {}
    /\ own = 0

ListInit ==
    /\ \E p \in Pages : Opened(p)
    /\ coll \in [edition : {0}, pages : {1, MaxPage}]

\* The server answers a list request, or the request is refused or cut off.  A
\* filtered query finds any part of the rows.
ServeLoad ==
    /\ \E l \in {x \in loads : x.answer = Waiting} :
           \E a \in {Refused} \cup
                     {Answer(coll.edition, n) :
                        n \in IF l.query.filters = {} THEN {coll.pages} ELSE 0..coll.pages} :
               loads' = (loads \ {l}) \cup {[l EXCEPT !.answer = a]}
    /\ UNCHANGED <<listPage, query, effect, shown, loading, failed, form, slots,
                   saves, own, coll>>

\* Mutant: the hook without its isActive test.
TakeAnyLoad(l) ==
    /\ loads' = loads \ {l}
    /\ loading' = FALSE
    /\ failed' = (l.answer = Refused)
    /\ shown' = IF l.answer = Refused THEN shown
                ELSE [query |-> l.query, edition |-> l.answer.edition,
                      pages |-> l.answer.pages]
    /\ UNCHANGED <<listPage, query, effect, form, slots, saves, own, coll>>

\* Mutant: a failed load leaves the page loading.
TakeLoadOrSpin(l) ==
    /\ loads' = loads \ {l}
    /\ IF l.run = effect /\ l.answer # Refused
       THEN /\ loading' = FALSE
            /\ failed' = FALSE
            /\ shown' = [query |-> l.query, edition |-> l.answer.edition,
                         pages |-> l.answer.pages]
       ELSE UNCHANGED <<loading, failed, shown>>
    /\ UNCHANGED <<listPage, query, effect, form, slots, saves, own, coll>>

\* The page takes an answer: one to a run that is no longer active is ignored.
TakeLoad(l) ==
    /\ loads' = loads \ {l}
    /\ IF l.run = effect
       THEN /\ loading' = FALSE
            /\ failed' = (l.answer = Refused)
            /\ shown' = IF l.answer = Refused THEN shown
                        ELSE [query |-> l.query, edition |-> l.answer.edition,
                              pages |-> l.answer.pages]
       ELSE UNCHANGED <<loading, failed, shown>>
    /\ UNCHANGED <<listPage, query, effect, form, slots, saves, own, coll>>

ReceiveLoad == \E l \in {x \in loads : x.answer # Waiting} : TakeLoad(l)

\* One control changes one filter and goes back to the first page; a query that stays the same loads nothing,
\* but for the audit log, whose Apply makes a new filter object.
SetFilters ==
    /\ Room
    /\ \E f \in SUBSET listPage.filters :
           LET q == [page |-> 1, filters |-> f]
           IN  /\ q # query \/ listPage.fresh
               /\ Cardinality((f \ query.filters) \cup (query.filters \ f)) <= 1
               /\ Load(q)
    /\ UNCHANGED <<listPage, shown, failed, form, slots, saves, own, coll>>

\* Mutant: Next is offered on the last page.
TurnPastTheLast ==
    /\ Room /\ listPage.turns /\ ~loading /\ ~failed /\ shown.pages > 0
    /\ \E n \in {shown.query.page - 1, shown.query.page + 1} :
           n > 0 /\ Load([query EXCEPT !.page = n])
    /\ UNCHANGED <<listPage, shown, failed, form, slots, saves, own, coll>>

\* Previous and Next count from the page that is shown.
TurnPage ==
    /\ Room /\ listPage.turns /\ ~loading /\ ~failed /\ shown.pages > 0
    /\ \E n \in {shown.query.page - 1, shown.query.page + 1} :
           /\ n < shown.query.page => shown.query.page > 1
           /\ n > shown.query.page => shown.query.page < shown.pages
           /\ Load([query EXCEPT !.page = n])
    /\ UNCHANGED <<listPage, shown, failed, form, slots, saves, own, coll>>

TryAgain ==
    /\ Room /\ listPage.retries /\ failed /\ ~loading
    /\ Load(query)
    /\ UNCHANGED <<listPage, shown, failed, form, slots, saves, own, coll>>

\* The button that opens and closes the create form is never disabled, Cancel is
\* while a save is under way.  An attachment's form is the file chosen.
UseForm ==
    /\ \E f \in {"closed", "create"} \cup Rows :
           /\ f # form
           /\ f = "create" => "create" \in DOMAIN listPage.saves
           /\ f \in Rows => "update" \in DOMAIN listPage.saves /\ ~loading /\ ~failed
           /\ f = "closed" /\ form \in Rows => slots["isSaving"] = "free"
           /\ form' = f
    /\ UNCHANGED <<listPage, query, effect, loads, shown, loading, failed, slots,
                   saves, own, coll>>

\* Submit and row buttons are disabled by the slot of their save; deletions of
\* different attachments do not hold off one another.
Save(op, row) ==
    LET slot == SlotOf(op)
        held == IF slot = "isDeletingId" THEN row ELSE "all"
        s == [op |-> op, row |-> row, form |-> form, answer |-> Waiting]
    IN  /\ Room /\ s \notin saves
        /\ slots[slot] \notin {"all", row}
        /\ slots' = [slots EXCEPT ![slot] = held]
        /\ saves' = saves \cup {s}
        /\ UNCHANGED <<listPage, query, effect, loads, shown, loading, failed,
                       form, own, coll>>

SendSave ==
    \/ "create" \in DOMAIN listPage.saves /\ form = "create" /\ Save("create", "new")
    \/ "update" \in DOMAIN listPage.saves /\ form \in Rows /\ Save("update", form)
    \/ /\ "delete" \in DOMAIN listPage.saves /\ ~loading /\ ~failed
       /\ \E r \in Rows : Save("delete", r)

\* A commit to the collection, by this page or by someone else.
Commit(pages) ==
    /\ coll.edition < MaxEdition
    /\ pages \in 0..MaxPage
    /\ coll' = [edition |-> coll.edition + 1, pages |-> pages]

\* The backend makes the change or refuses it; the answer may be lost after the
\* commit.
ServeSave(op) ==
    /\ \E s \in {x \in saves : x.op = op /\ x.answer = Waiting} :
           \/ \E a \in {Refused, Answer(coll.edition + 1, 0)} :
                  /\ Commit(CASE s.op = "create" -> coll.pages + 1
                             [] s.op = "delete" -> coll.pages - 1
                             [] OTHER -> coll.pages)
                  /\ saves' = (saves \ {s}) \cup {[s EXCEPT !.answer = a]}
           \/ /\ saves' = (saves \ {s}) \cup {[s EXCEPT !.answer = Refused]}
              /\ UNCHANGED coll
    /\ UNCHANGED <<listPage, query, effect, loads, shown, loading, failed, form,
                   slots, own>>

\* Forms a successful save closes: the create form, any edit form, or the edit
\* form of the role it deleted.
Closes(s) ==
    \/ s.op = "create" /\ form = "create"
    \/ s.op = "update" /\ form \in Rows
    \/ s.op = "delete" /\ s.form = s.row /\ form \in Rows

\* A successful save closes its form and loads the page again; every save frees
\* its slot at the end.
TakeSave(s) ==
    /\ saves' = saves \ {s}
    /\ slots' = [slots EXCEPT ![SlotOf(s.op)] = "free"]
    /\ IF s.answer = Refused
       THEN UNCHANGED <<query, effect, loads, loading, form, own>>
       ELSE /\ form' = IF Closes(s) THEN "closed" ELSE form
            /\ own' = IF s.answer.edition > own THEN s.answer.edition ELSE own
            /\ Load(query)
    /\ UNCHANGED <<listPage, shown, failed, coll>>

ReceiveSave(op) == \E s \in {x \in saves : x.op = op /\ x.answer # Waiting} : TakeSave(s)

\* Another user changes the collection.
OthersSave ==
    /\ \E n \in {coll.pages - 1, coll.pages, coll.pages + 1} : Commit(n)
    /\ UNCHANGED <<listPage, query, effect, loads, shown, loading, failed, form,
                   slots, saves, own>>

ListNext ==
    \/ ServeLoad \/ ReceiveLoad \/ SetFilters \/ TurnPage \/ TryAgain \/ UseForm
    \/ SendSave \/ OthersSave
    \/ \E op \in SaveOps : ServeSave(op) \/ ReceiveSave(op)

ListSpec == ListInit /\ [][ListNext]_listVars

\* The server answers or the connection breaks, and a page runs its callbacks.
ListFairness ==
    /\ WF_listVars(ServeLoad) /\ WF_listVars(ReceiveLoad)
    /\ \A op \in SaveOps : WF_listVars(ServeSave(op)) /\ WF_listVars(ReceiveSave(op))

-----------------------------------------------------------------------------
Answers == {Waiting, Refused} \cup
    [state : {"answered"}, edition : 0..MaxEdition, pages : 0..MaxPage]
ListTypeOK ==
    /\ listPage \in Pages
    /\ query \in Query
    /\ effect \in 1..MaxEffects
    /\ loads \subseteq [run : 1..MaxEffects, query : Query, answer : Answers]
    /\ shown \in [query : Query, edition : 0..MaxEdition, pages : 0..MaxPage]
    /\ loading \in BOOLEAN /\ failed \in BOOLEAN
    /\ form \in {"closed", "create"} \cup Rows
    /\ slots \in [{SlotOf(op) : op \in DOMAIN listPage.saves} -> {"free", "all"} \cup Rows]
    /\ saves \subseteq [op : DOMAIN listPage.saves, row : {"new"} \cup Rows,
                        form : {"closed", "create"} \cup Rows, answer : Answers]
    /\ own \in 0..MaxEdition
    /\ coll \in [edition : 0..MaxEdition, pages : 0..MaxPage]

\* A page that has settled without an error shows the rows of the query it asks,
\* read after every change it was told it made, although answers come in any
\* order and filters, page turns and saves overlap.
ListShowsItsQuery ==
    ~loading /\ ~failed /\ Asks(query) => shown.query = query /\ shown.edition >= own

Held(s) == s \in DOMAIN slots /\ slots[s] # "free"

\* A page that asks a query stops loading, and a save that was sent ends and
\* gives its buttons back, whatever is refused or lost.
ListSettles ==
    /\ (loading /\ Asks(query)) ~> (~loading \/ ~Asks(query))
    /\ \A s \in {"isSaving", "isUploading", "isDeletingId"} :
          Held(s) ~> ~Held(s)
=============================================================================
