-------------------------- MODULE ListPages_proofs --------------------------
(***************************************************************************)
(* A list page that has settled shows the answer to the query it asks,     *)
(* read after its own saves, for any pages of the interface, any number of *)
(* rows, pages, loads and commits, and answers in any order.               *)
(***************************************************************************)
EXTENDS ListPages, FiniteSetTheorems, TLAPS

USE ListAssumption

\* Every request under way has room for the load it may end with.
RoomKept == IsFiniteSet(saves) /\ effect + Cardinality(saves) <= MaxEffects

Answered(a) == a # Waiting /\ a # Refused

\* What a save of this page was told it made, or is about to be told, is committed.
OwnIsCommitted ==
    /\ own <= coll.edition
    /\ \A s \in saves : Answered(s.answer) => s.answer.edition <= coll.edition

\* A load in flight belongs to an earlier run, or asks the current query and is
\* answered with rows at least as new as the page's own saves.
LastLoadIsCurrent ==
    \A l \in loads :
        /\ l.run <= effect
        /\ l.run = effect =>
              l.query = query /\ (Answered(l.answer) => l.answer.edition >= own)

ListInv == ListTypeOK /\ RoomKept /\ OwnIsCommitted /\ LastLoadIsCurrent /\ ListShowsItsQuery

-----------------------------------------------------------------------------
LEMMA AnswerFacts ==
  /\ Waiting \in Answers /\ Refused \in Answers
  /\ \A e \in 0..MaxEdition, n \in 0..MaxPage :
        /\ Answer(e, n) \in Answers /\ Answered(Answer(e, n))
        /\ Answer(e, n).edition = e /\ Answer(e, n).pages = n
  /\ ~Answered(Waiting) /\ ~Answered(Refused)
  /\ \A a \in Answers : Answered(a) => a.edition \in 0..MaxEdition /\ a.pages \in 0..MaxPage
<1>1. Waiting.state = "waiting" /\ Refused.state = "refused"
  BY DEF Waiting, Refused
<1>2. ASSUME NEW e \in 0..MaxEdition, NEW n \in 0..MaxPage
      PROVE  /\ Answer(e, n) \in Answers /\ Answer(e, n).state = "answered"
             /\ Answer(e, n).edition = e /\ Answer(e, n).pages = n
  BY DEF Answer, Answers
<1>3. \A e \in 0..MaxEdition, n \in 0..MaxPage : Answered(Answer(e, n))
  BY <1>1, <1>2 DEF Answered
<1>4. \A a \in Answers : Answered(a) => a.edition \in 0..MaxEdition /\ a.pages \in 0..MaxPage
  BY DEF Answers, Answered
<1> QED
  BY <1>2, <1>3, <1>4 DEF Answers, Answered

LEMMA PagesLoad ==
  ASSUME NEW p \in Pages
  PROVE  p.always \in BOOLEAN
<1>1. \A f, s : Page(f, s).always = TRUE
  BY DEF Page
<1>2. /\ ContactsWorkspace.always = TRUE /\ CompaniesWorkspace.always = TRUE
      /\ LeadsWorkspace.always = TRUE /\ DealsWorkspace.always = TRUE
      /\ TasksWorkspace.always = TRUE /\ ActivitiesWorkspace.always = TRUE
      /\ NotesWorkspace.always = TRUE /\ TagsWorkspace.always = TRUE
      /\ PipelinesWorkspace.always = TRUE
  BY <1>1 DEF ContactsWorkspace, CompaniesWorkspace, LeadsWorkspace, DealsWorkspace,
     TasksWorkspace, ActivitiesWorkspace, NotesWorkspace, TagsWorkspace, PipelinesWorkspace
<1>3. UsersSettings.always = TRUE /\ AttachmentPanel.always = TRUE
  BY <1>1 DEF UsersSettings, AttachmentPanel
<1>4. RolesSettings.always = TRUE
  BY Zenon DEF RolesSettings, Page
<1>5. /\ AuditLogSettings.always = TRUE /\ SearchWorkspace.always = FALSE
      /\ CompanyOptions.always = TRUE
  BY Zenon DEF AuditLogSettings, SearchWorkspace, CompanyOptions, Page
<1> QED
  BY <1>2, <1>3, <1>4, <1>5 DEF AllPages, ContactOptions, LeadOptions, PipelineOptions

\* Only deletions hold a slot of their row.
LEMMA CreatesHoldAll ==
  ASSUME NEW p \in Pages, "create" \in DOMAIN p.saves
  PROVE  p.saves["create"] # "isDeletingId"
<1>1. \A f, s : Page(f, s).saves = s
  BY DEF Page
<1>2. Creates["create"] = "isSaving"
  BY DEF Creates
<1>3. /\ ContactsWorkspace.saves = Creates /\ CompaniesWorkspace.saves = Creates
      /\ LeadsWorkspace.saves = Creates /\ DealsWorkspace.saves = Creates
      /\ TasksWorkspace.saves = Creates /\ ActivitiesWorkspace.saves = Creates
      /\ NotesWorkspace.saves = Creates /\ TagsWorkspace.saves = Creates
      /\ PipelinesWorkspace.saves = Creates
  BY <1>1 DEF ContactsWorkspace, CompaniesWorkspace, LeadsWorkspace, DealsWorkspace,
     TasksWorkspace, ActivitiesWorkspace, NotesWorkspace, TagsWorkspace, PipelinesWorkspace
<1>4. UsersSettings.saves = [create |-> "isSaving", update |-> "isSaving"]
  BY <1>1 DEF UsersSettings
<1>5. RolesSettings.saves = [create |-> "isSaving", update |-> "isSaving", delete |-> "isSaving"]
  BY DEF RolesSettings, Page
<1>6. AttachmentPanel.saves["create"] = "isUploading"
  BY <1>1 DEF AttachmentPanel
<1>7. /\ AuditLogSettings.saves = <<>> /\ SearchWorkspace.saves = <<>>
      /\ CompanyOptions.saves = <<>>
  BY Zenon DEF AuditLogSettings, SearchWorkspace, CompanyOptions, Page
<1> QED
  BY <1>2, <1>3, <1>4, <1>5, <1>6, <1>7
     DEF AllPages, ContactOptions, LeadOptions, PipelineOptions

-----------------------------------------------------------------------------
LoadRecords == [run : 1..MaxEffects, query : Query, answer : Answers]

\* Another run of the effect leaves every load in flight behind.
LEMMA LoadStep ==
  ASSUME ListInv, NEW q \in Query, effect < MaxEffects, Load(q), listPage' = listPage
  PROVE  /\ query' = q /\ effect' = effect + 1
         /\ query' \in Query /\ effect' \in 1..MaxEffects
         /\ loads' \subseteq LoadRecords /\ loading' \in BOOLEAN
         /\ LastLoadIsCurrent'
         /\ Asks(query)' => loading'
<1> DEFINE new == [run |-> effect + 1, query |-> q, answer |-> Waiting]
<1>1. effect \in 1..MaxEffects /\ effect + 1 \in 1..MaxEffects /\ loading \in BOOLEAN
  BY DEF ListInv, ListTypeOK
<1>2. new \in LoadRecords /\ new.run = effect + 1 /\ new.query = q /\ new.answer = Waiting
  BY <1>1, AnswerFacts DEF LoadRecords
<1>3. query' = q /\ effect' = effect + 1 /\ loads' \subseteq loads \cup {new}
  BY DEF Load
<1>4. \A l \in loads : l \in LoadRecords /\ l.run <= effect
  BY DEF ListInv, ListTypeOK, LastLoadIsCurrent, LoadRecords
<1>5. LastLoadIsCurrent'
  <2> SUFFICES ASSUME NEW l \in loads'
               PROVE  /\ l.run <= effect'
                      /\ l.run = effect' =>
                            l.query = query' /\ (Answered(l.answer) => l.answer.edition >= own')
    BY DEF LastLoadIsCurrent
  <2>1. CASE l = new
    BY <2>1, <1>1, <1>2, <1>3, AnswerFacts
  <2>2. CASE l \in loads
    <3>1. l.run \in Nat /\ l.run <= effect
      BY <1>4, <2>2 DEF LoadRecords
    <3> QED
      BY <3>1, <1>1, <1>3
  <2> QED
    BY <1>3, <2>1, <2>2
<1>6. Asks(query)' => loading'
  BY <1>3 DEF Asks, Load
<1>7. loading' \in BOOLEAN
  BY <1>1 DEF Load
<1>8. loads' \subseteq LoadRecords
  BY <1>2, <1>3, <1>4
<1> QED
  BY <1>1, <1>3, <1>5, <1>6, <1>7, <1>8

LEMMA ListInitial == ListInit => ListInv
<1> SUFFICES ASSUME ListInit PROVE ListInv
  OBVIOUS
<1>1. PICK p \in Pages : Opened(p)
  BY DEF ListInit
<1>2. coll \in [edition : 0..MaxEdition, pages : 0..MaxPage] /\ coll.edition = 0
  BY DEF ListInit
<1>3. FirstQuery \in Query
  BY DEF FirstQuery, Query
<1> DEFINE first == [run |-> 1, query |-> FirstQuery, answer |-> Waiting]
<1>4. /\ first \in LoadRecords /\ first.run = 1
      /\ first.query = FirstQuery /\ first.answer = Waiting
  BY <1>3, AnswerFacts DEF LoadRecords
<1>5. loads \subseteq {first} /\ (Asks(query) => loading) /\ loading \in BOOLEAN
  BY <1>1, PagesLoad DEF Opened, Asks, FirstQuery
<1>6. ListTypeOK
  <2>1. slots \in [{SlotOf(op) : op \in DOMAIN listPage.saves} -> {"free", "all"} \cup Rows]
    BY <1>1 DEF Opened, SlotOf
  <2>2. shown \in [query : Query, edition : 0..MaxEdition, pages : 0..MaxPage]
    BY <1>1, <1>3 DEF Opened
  <2>3. saves = {} /\ own = 0 /\ effect = 1 /\ query = FirstQuery /\ failed = FALSE /\ form = "closed"
    BY <1>1 DEF Opened
  <2> QED
    BY <1>1, <1>2, <1>3, <1>4, <1>5, <2>1, <2>2, <2>3 DEF ListTypeOK, LoadRecords, Opened
<1>7. RoomKept
  BY <1>1, FS_EmptySet DEF RoomKept, Opened
<1>8. OwnIsCommitted /\ LastLoadIsCurrent /\ ListShowsItsQuery
  BY <1>1, <1>2, <1>4, <1>5, AnswerFacts
     DEF OwnIsCommitted, LastLoadIsCurrent, ListShowsItsQuery, Opened
<1> QED
  BY <1>6, <1>7, <1>8 DEF ListInv

-----------------------------------------------------------------------------
LEMMA ServeLoadKeeps == ASSUME ListInv, ServeLoad PROVE ListInv'
<1>1. PICK l \in loads, a \in Answers :
          /\ loads' = (loads \ {l}) \cup {[l EXCEPT !.answer = a]}
          /\ Answered(a) => a.edition = coll.edition
  <2>1. PICK l \in loads : \E a \in {Refused} \cup
                     {Answer(coll.edition, n) :
                        n \in IF l.query.filters = {} THEN {coll.pages} ELSE 0..coll.pages} :
               loads' = (loads \ {l}) \cup {[l EXCEPT !.answer = a]}
    BY DEF ServeLoad
  <2>2. PICK a : /\ loads' = (loads \ {l}) \cup {[l EXCEPT !.answer = a]}
                 /\ a = Refused \/ \E n \in 0..coll.pages : a = Answer(coll.edition, n)
    <3>1. coll.pages \in 0..coll.pages
      BY DEF ListInv, ListTypeOK
    <3> QED
      BY <2>1, <3>1
  <2>3. a \in Answers /\ (Answered(a) => a.edition = coll.edition)
    <3>1. coll.edition \in 0..MaxEdition /\ coll.pages \in 0..MaxPage
      BY DEF ListInv, ListTypeOK
    <3>2. CASE a = Refused
      BY <3>2, AnswerFacts
    <3>3. CASE \E n \in 0..coll.pages : a = Answer(coll.edition, n)
      <4>1. PICK n \in 0..coll.pages : a = Answer(coll.edition, n)
        BY <3>3
      <4>2. n \in 0..MaxPage
        BY <3>1
      <4> QED
        BY <3>1, <4>1, <4>2, AnswerFacts
    <3> QED
      BY <2>2, <3>2, <3>3
  <2> QED
    BY <2>2, <2>3
<1> DEFINE m == [l EXCEPT !.answer = a]
<1>2. l \in LoadRecords /\ m \in LoadRecords
      /\ m.run = l.run /\ m.query = l.query /\ m.answer = a
  BY <1>1 DEF ListInv, ListTypeOK, LoadRecords
<1>3. UNCHANGED <<listPage, query, effect, shown, loading, failed, form, slots, saves, own, coll>>
  BY DEF ServeLoad
<1>4. loads' \subseteq LoadRecords
  BY <1>1, <1>2 DEF ListInv, ListTypeOK, LoadRecords
<1>5. ListTypeOK'
  BY <1>3, <1>4 DEF ListInv, ListTypeOK, LoadRecords, SlotOf
<1>6. RoomKept' /\ OwnIsCommitted' /\ ListShowsItsQuery'
  BY <1>3 DEF ListInv, RoomKept, OwnIsCommitted, ListShowsItsQuery, Asks
<1>7. LastLoadIsCurrent'
  <2>1. Answered(a) => a.edition >= own
    BY <1>1 DEF ListInv, OwnIsCommitted, ListTypeOK
  <2> HIDE DEF m
  <2>2. loads' \subseteq loads \cup {m}
    BY <1>1 DEF m
  <2> QED
    BY <1>2, <1>3, <2>1, <2>2 DEF ListInv, LastLoadIsCurrent
<1> QED
  BY <1>5, <1>6, <1>7 DEF ListInv

LEMMA TakeLoadKeeps == ASSUME ListInv, ReceiveLoad PROVE ListInv'
<1>1. PICK l \in loads : l.answer # Waiting /\ TakeLoad(l)
  BY DEF ReceiveLoad
<1>2. UNCHANGED <<listPage, query, effect, form, slots, saves, own, coll>> /\ loads' \subseteq loads
  BY <1>1 DEF TakeLoad
<1>3. l.query \in Query /\ l.answer \in Answers
  BY DEF ListInv, ListTypeOK
<1>4. CASE l.run # effect
  <2>1. UNCHANGED <<loading, failed, shown>>
    BY <1>1, <1>4 DEF TakeLoad
  <2>2. ListTypeOK'
    BY <1>2, <2>1 DEF ListInv, ListTypeOK, SlotOf
  <2>3. RoomKept' /\ OwnIsCommitted' /\ LastLoadIsCurrent' /\ ListShowsItsQuery'
    BY <1>2, <2>1
       DEF ListInv, RoomKept, OwnIsCommitted, LastLoadIsCurrent, ListShowsItsQuery, Asks
  <2> QED
    BY <2>2, <2>3 DEF ListInv
<1>5. CASE l.run = effect
  <2>1. /\ loading' = FALSE /\ failed' = (l.answer = Refused)
        /\ shown' = IF l.answer = Refused THEN shown
                    ELSE [query |-> l.query, edition |-> l.answer.edition,
                          pages |-> l.answer.pages]
    BY <1>1, <1>5 DEF TakeLoad
  <2>2. l.answer # Refused =>
            /\ l.answer.edition \in 0..MaxEdition /\ l.answer.pages \in 0..MaxPage
            /\ l.query = query /\ l.answer.edition >= own
    BY <1>1, <1>3, <1>5, AnswerFacts DEF ListInv, LastLoadIsCurrent, Answered
  <2>3. shown' \in [query : Query, edition : 0..MaxEdition, pages : 0..MaxPage]
    BY <1>3, <2>1, <2>2 DEF ListInv, ListTypeOK
  <2>7. loading' \in BOOLEAN /\ failed' \in BOOLEAN
    BY <2>1
  <2>4. ListTypeOK'
    BY <1>2, <2>7, <2>3 DEF ListInv, ListTypeOK, SlotOf
  <2>5. ListShowsItsQuery'
    BY <1>2, <2>1, <2>2 DEF ListShowsItsQuery
  <2>6. RoomKept' /\ OwnIsCommitted' /\ LastLoadIsCurrent'
    BY <1>2 DEF ListInv, RoomKept, OwnIsCommitted, LastLoadIsCurrent
  <2> QED
    BY <2>4, <2>5, <2>6 DEF ListInv
<1> QED
  BY <1>4, <1>5

\* The controls that start a load.
LEMMA ControlKeeps ==
  ASSUME ListInv, NEW q \in Query, Room, Load(q),
         UNCHANGED <<listPage, shown, failed, form, slots, saves, own, coll>>
  PROVE  ListInv'
<1>1. Cardinality(saves) \in Nat /\ effect \in Nat
  BY FS_CardinalityType DEF ListInv, RoomKept, ListTypeOK
<1>2. effect < MaxEffects /\ effect + 1 + Cardinality(saves) <= MaxEffects
  BY <1>1 DEF Room
<1>3. /\ query' = q /\ effect' = effect + 1
      /\ query' \in Query /\ effect' \in 1..MaxEffects
      /\ loads' \subseteq LoadRecords /\ loading' \in BOOLEAN
      /\ LastLoadIsCurrent'
      /\ Asks(query)' => loading'
  BY <1>2, LoadStep
<1>4. ListTypeOK'
  BY <1>3 DEF ListInv, ListTypeOK, LoadRecords, SlotOf
<1>5. RoomKept' /\ OwnIsCommitted'
  BY <1>2, <1>3 DEF ListInv, RoomKept, OwnIsCommitted
<1>6. ListShowsItsQuery'
  BY <1>3 DEF ListShowsItsQuery
<1> QED
  BY <1>3, <1>4, <1>5, <1>6 DEF ListInv

LEMMA ControlsKeep == ASSUME ListInv, SetFilters \/ TurnPage \/ TryAgain PROVE ListInv'
<1>1. CASE SetFilters
  <2>1. PICK f \in SUBSET listPage.filters :
            /\ Load([page |-> 1, filters |-> f]) /\ Room
            /\ UNCHANGED <<listPage, shown, failed, form, slots, saves, own, coll>>
    BY <1>1 DEF SetFilters
  <2>2. [page |-> 1, filters |-> f] \in Query
    BY DEF Query, ListInv, ListTypeOK
  <2> QED
    BY <2>1, <2>2, ControlKeeps
<1>2. CASE TurnPage
  <2>1. PICK n \in {shown.query.page - 1, shown.query.page + 1} :
            /\ n < shown.query.page => shown.query.page > 1
            /\ n > shown.query.page => shown.query.page < shown.pages
            /\ Load([query EXCEPT !.page = n]) /\ Room
            /\ UNCHANGED <<listPage, shown, failed, form, slots, saves, own, coll>>
    BY <1>2 DEF TurnPage
  <2>2. shown.query.page \in 1..MaxPage /\ shown.pages \in 0..MaxPage
    BY DEF ListInv, ListTypeOK, Query
  <2>3. n \in 1..MaxPage
    BY <2>1, <2>2
  <2>4. [query EXCEPT !.page = n] \in Query
    BY <2>3 DEF ListInv, ListTypeOK, Query
  <2> QED
    BY <2>1, <2>4, ControlKeeps
<1>3. CASE TryAgain
  BY <1>3, ControlKeeps DEF TryAgain, ListInv, ListTypeOK
<1> QED
  BY <1>1, <1>2, <1>3

LEMMA UseFormKeeps == ASSUME ListInv, UseForm PROVE ListInv'
<1>1. UNCHANGED <<listPage, query, effect, loads, shown, loading, failed, slots, saves, own, coll>>
  BY DEF UseForm
<1>2. form' \in {"closed", "create"} \cup Rows
  BY DEF UseForm
<1>3. ListTypeOK'
  BY <1>1, <1>2 DEF ListInv, ListTypeOK, SlotOf
<1>4. RoomKept' /\ OwnIsCommitted' /\ LastLoadIsCurrent' /\ ListShowsItsQuery'
  BY <1>1 DEF ListInv, RoomKept, OwnIsCommitted, LastLoadIsCurrent, ListShowsItsQuery, Asks
<1> QED
  BY <1>3, <1>4 DEF ListInv

SaveRecords == [op : DOMAIN listPage.saves, row : {"new"} \cup Rows,
                form : {"closed", "create"} \cup Rows, answer : Answers]

LEMMA SaveKeeps ==
  ASSUME ListInv, NEW op \in DOMAIN listPage.saves, NEW row \in {"new"} \cup Rows,
         row \in Rows \/ op = "create", Save(op, row)
  PROVE  ListInv'
<1> DEFINE s == [op |-> op, row |-> row, form |-> form, answer |-> Waiting]
           held == IF SlotOf(op) = "isDeletingId" THEN row ELSE "all"
<1>1. /\ Room /\ s \notin saves
      /\ slots' = [slots EXCEPT ![SlotOf(op)] = held]
      /\ saves' = saves \cup {s}
      /\ UNCHANGED <<listPage, query, effect, loads, shown, loading, failed, form, own, coll>>
  BY DEF Save
<1>2. held \in {"free", "all"} \cup Rows
  <2>1. op = "create" => SlotOf(op) # "isDeletingId"
    BY CreatesHoldAll DEF SlotOf, ListInv, ListTypeOK
  <2> QED
    BY <2>1
<1>3. s \in SaveRecords /\ s.answer = Waiting
  BY AnswerFacts DEF SaveRecords, ListInv, ListTypeOK
<1>4. slots' \in [{SlotOf(o) : o \in DOMAIN listPage.saves} -> {"free", "all"} \cup Rows]
  <2> HIDE DEF held
  <2> QED
    BY <1>1, <1>2 DEF ListInv, ListTypeOK
<1> HIDE DEF s, held
<1>5. saves' \subseteq SaveRecords
  BY <1>1, <1>3 DEF ListInv, ListTypeOK, SaveRecords
<1>6. ListTypeOK'
  BY <1>1, <1>4, <1>5 DEF ListInv, ListTypeOK, SaveRecords, SlotOf
<1>7. RoomKept'
  <2>1. IsFiniteSet(saves') /\ Cardinality(saves') = Cardinality(saves) + 1
    BY <1>1, FS_AddElement DEF ListInv, RoomKept
  <2>2. Cardinality(saves) \in Nat /\ effect \in Nat
    BY FS_CardinalityType DEF ListInv, RoomKept, ListTypeOK
  <2> QED
    BY <1>1, <2>1, <2>2 DEF RoomKept, Room
<1>8. OwnIsCommitted'
  BY <1>1, <1>3, AnswerFacts DEF ListInv, OwnIsCommitted
<1>9. LastLoadIsCurrent' /\ ListShowsItsQuery'
  BY <1>1 DEF ListInv, LastLoadIsCurrent, ListShowsItsQuery, Asks
<1> QED
  BY <1>6, <1>7, <1>8, <1>9 DEF ListInv

LEMMA SendSaveKeeps == ASSUME ListInv, SendSave PROVE ListInv'
<1>1. CASE "create" \in DOMAIN listPage.saves /\ Save("create", "new")
  BY <1>1, SaveKeeps
<1>2. CASE "update" \in DOMAIN listPage.saves /\ form \in Rows /\ Save("update", form)
  BY <1>2, SaveKeeps
<1>3. CASE "delete" \in DOMAIN listPage.saves /\ \E r \in Rows : Save("delete", r)
  BY <1>3, SaveKeeps
<1> QED
  BY <1>1, <1>2, <1>3 DEF SendSave

\* Replacing one element of a finite set does not make it larger.
LEMMA SwapKeepsSize ==
  ASSUME NEW S, NEW s \in S, NEW m, IsFiniteSet(S)
  PROVE  /\ IsFiniteSet((S \ {s}) \cup {m})
         /\ Cardinality((S \ {s}) \cup {m}) <= Cardinality(S)
<1> DEFINE T == S \ {s}
<1>1. IsFiniteSet(T) /\ Cardinality(T) = Cardinality(S) - 1
  BY FS_RemoveElement
<1>2. Cardinality(S) \in Nat
  BY FS_CardinalityType
<1> HIDE DEF T
<1>3. /\ IsFiniteSet(T \cup {m})
      /\ Cardinality(T \cup {m}) = IF m \in T THEN Cardinality(T) ELSE Cardinality(T) + 1
  BY <1>1, FS_AddElement
<1>4. Cardinality(T \cup {m}) <= Cardinality(S)
  BY <1>1, <1>2, <1>3
<1> QED
  BY <1>3, <1>4 DEF T

\* A save in flight is served: its answer is at most the newest edition there is.
LEMMA ReplacedSave ==
  ASSUME ListInv, NEW s \in saves, NEW m \in SaveRecords, saves' = (saves \ {s}) \cup {m}
  PROVE  /\ saves' \subseteq SaveRecords
         /\ IsFiniteSet(saves') /\ Cardinality(saves') <= Cardinality(saves)
         /\ \A x \in saves' : x \in saves \/ x = m
<1>1. IsFiniteSet(saves)
  BY DEF ListInv, RoomKept
<1>2. IsFiniteSet(saves') /\ Cardinality(saves') <= Cardinality(saves)
  BY <1>1, SwapKeepsSize
<1>3. saves' \subseteq SaveRecords /\ \A x \in saves' : x \in saves \/ x = m
  BY DEF ListInv, ListTypeOK, SaveRecords
<1> QED
  BY <1>2, <1>3

LEMMA ServeSaveKeeps == ASSUME ListInv, NEW op \in SaveOps, ServeSave(op) PROVE ListInv'
<1>1. UNCHANGED <<listPage, query, effect, loads, shown, loading, failed, form, slots, own>>
  BY DEF ServeSave
<1>2. coll \in [edition : 0..MaxEdition, pages : 0..MaxPage]
  BY DEF ListInv, ListTypeOK
<1>3. PICK s \in saves, a \in Answers :
          /\ saves' = (saves \ {s}) \cup {[s EXCEPT !.answer = a]}
          /\ coll' \in [edition : 0..MaxEdition, pages : 0..MaxPage]
          /\ coll'.edition >= coll.edition
          /\ Answered(a) => a.edition <= coll'.edition
  <2>1. PICK s \in saves :
           \/ /\ \E a \in {Refused, Answer(coll.edition + 1, 0)} :
                     saves' = (saves \ {s}) \cup {[s EXCEPT !.answer = a]}
              /\ \E n : Commit(n)
           \/ /\ saves' = (saves \ {s}) \cup {[s EXCEPT !.answer = Refused]}
              /\ UNCHANGED coll
    BY DEF ServeSave
  <2>2. CASE UNCHANGED coll /\ saves' = (saves \ {s}) \cup {[s EXCEPT !.answer = Refused]}
    BY <1>2, <2>2, AnswerFacts
  <2>3. ASSUME NEW a \in {Refused, Answer(coll.edition + 1, 0)}, NEW n, Commit(n),
               saves' = (saves \ {s}) \cup {[s EXCEPT !.answer = a]}
        PROVE  /\ a \in Answers
               /\ coll' \in [edition : 0..MaxEdition, pages : 0..MaxPage]
               /\ coll'.edition >= coll.edition
               /\ Answered(a) => a.edition <= coll'.edition
    <3>1. /\ coll' = [edition |-> coll.edition + 1, pages |-> n]
          /\ n \in 0..MaxPage /\ coll.edition + 1 \in 0..MaxEdition
      BY <1>2, <2>3 DEF Commit
    <3> QED
      BY <1>2, <2>3, <3>1, AnswerFacts
  <2> QED
    BY <2>1, <2>2, <2>3
<1>4. /\ saves' \subseteq SaveRecords
      /\ IsFiniteSet(saves') /\ Cardinality(saves') <= Cardinality(saves)
      /\ \A x \in saves' : x \in saves \/ x.answer = a
  <2> DEFINE m == [s EXCEPT !.answer = a]
  <2>1. m \in SaveRecords /\ m.answer = a
    BY DEF ListInv, ListTypeOK, SaveRecords
  <2>2. saves' = (saves \ {s}) \cup {m}
    BY <1>3
  <2> HIDE DEF m
  <2> QED
    BY <2>1, <2>2, ReplacedSave
<1>5. ListTypeOK'
  BY <1>1, <1>3, <1>4 DEF ListInv, ListTypeOK, SaveRecords, SlotOf
<1>6. RoomKept'
  <2>1. Cardinality(saves) \in Nat /\ Cardinality(saves') \in Nat /\ effect \in Nat
    BY <1>4, FS_CardinalityType DEF ListInv, RoomKept, ListTypeOK
  <2> QED
    BY <1>1, <1>4, <2>1 DEF ListInv, RoomKept
<1>7. OwnIsCommitted'
  <2>1. own \in Nat /\ own <= coll.edition
    BY DEF ListInv, ListTypeOK, OwnIsCommitted
  <2>2. ASSUME NEW x \in saves', Answered(x.answer) PROVE x.answer.edition <= coll'.edition
    <3>1. CASE x.answer = a
      BY <1>3, <2>2, <3>1
    <3>2. CASE x \in saves
      <4>1. x.answer \in Answers
        BY <3>2 DEF ListInv, ListTypeOK
      <4>2. x.answer.edition \in Nat /\ x.answer.edition <= coll.edition
        BY <2>2, <3>2, <4>1, AnswerFacts DEF ListInv, OwnIsCommitted
      <4> QED
        BY <1>2, <1>3, <4>2
    <3> QED
      BY <1>4, <3>1, <3>2
  <2> QED
    BY <1>1, <1>2, <1>3, <2>1, <2>2 DEF OwnIsCommitted
<1>8. LastLoadIsCurrent' /\ ListShowsItsQuery'
  BY <1>1 DEF ListInv, LastLoadIsCurrent, ListShowsItsQuery, Asks
<1> QED
  BY <1>5, <1>6, <1>7, <1>8 DEF ListInv

LEMMA ReceiveSaveKeeps == ASSUME ListInv, NEW op \in SaveOps, ReceiveSave(op) PROVE ListInv'
<1>1. PICK s \in saves : s.answer # Waiting /\ TakeSave(s)
  BY DEF ReceiveSave
<1>2. /\ saves' = saves \ {s}
      /\ slots' = [slots EXCEPT ![SlotOf(s.op)] = "free"]
      /\ UNCHANGED <<listPage, shown, failed, coll>>
  BY <1>1 DEF TakeSave
<1>3. s.op \in DOMAIN listPage.saves /\ s.answer \in Answers
  BY DEF ListInv, ListTypeOK
<1>4. slots' \in [{SlotOf(o) : o \in DOMAIN listPage.saves} -> {"free", "all"} \cup Rows]
  BY <1>2, <1>3 DEF ListInv, ListTypeOK
<1>5. /\ saves' \subseteq SaveRecords /\ IsFiniteSet(saves')
      /\ Cardinality(saves') = Cardinality(saves) - 1
      /\ Cardinality(saves) \in Nat /\ Cardinality(saves') \in Nat
  BY <1>2, FS_RemoveElement, FS_CardinalityType DEF ListInv, RoomKept, ListTypeOK, SaveRecords
<1>6. effect \in 1..MaxEffects /\ effect + Cardinality(saves) <= MaxEffects
  BY DEF ListInv, RoomKept, ListTypeOK
<1>7. own \in 0..MaxEdition /\ own <= coll.edition
  BY DEF ListInv, ListTypeOK, OwnIsCommitted
<1>8. CASE s.answer = Refused
  <2>1. UNCHANGED <<query, effect, loads, loading, form, own>>
    BY <1>1, <1>8 DEF TakeSave
  <2>2. ListTypeOK'
    BY <1>2, <1>4, <1>5, <2>1 DEF ListInv, ListTypeOK, SaveRecords, SlotOf
  <2>3. RoomKept'
    BY <1>5, <1>6, <2>1 DEF RoomKept
  <2>4. OwnIsCommitted' /\ LastLoadIsCurrent' /\ ListShowsItsQuery'
    BY <1>2, <2>1 DEF ListInv, OwnIsCommitted, LastLoadIsCurrent, ListShowsItsQuery, Asks
  <2> QED
    BY <2>2, <2>3, <2>4 DEF ListInv
<1>9. CASE s.answer # Refused
  <2>1. /\ form' = IF Closes(s) THEN "closed" ELSE form
        /\ own' = IF s.answer.edition > own THEN s.answer.edition ELSE own
        /\ Load(query)
    BY <1>1, <1>9 DEF TakeSave
  <2>2. Answered(s.answer)
    BY <1>1, <1>9 DEF Answered
  <2>3. s.answer.edition \in 0..MaxEdition /\ s.answer.edition <= coll.edition
    BY <1>3, <2>2, AnswerFacts DEF ListInv, OwnIsCommitted
  <2>4. own' \in 0..MaxEdition /\ own' <= coll'.edition
    BY <1>2, <1>7, <2>1, <2>3
  <2>5. query \in Query /\ effect < MaxEffects
    <3>1. Cardinality(saves) # 0
      BY <1>5
    <3> QED
      BY <1>5, <1>6, <3>1 DEF ListInv, ListTypeOK
  <2>6. /\ query' = query /\ effect' = effect + 1
        /\ query' \in Query /\ effect' \in 1..MaxEffects
        /\ loads' \subseteq LoadRecords /\ loading' \in BOOLEAN
        /\ LastLoadIsCurrent'
        /\ Asks(query)' => loading'
    BY <1>2, <2>1, <2>5, LoadStep
  <2>7. form' \in {"closed", "create"} \cup Rows
    BY <2>1 DEF ListInv, ListTypeOK
  <2>8. ListTypeOK'
    BY <1>2, <1>4, <1>5, <2>4, <2>6, <2>7
       DEF ListInv, ListTypeOK, LoadRecords, SaveRecords, SlotOf
  <2>9. RoomKept'
    BY <1>5, <1>6, <2>6 DEF RoomKept
  <2>10. OwnIsCommitted'
    BY <1>2, <2>4 DEF ListInv, OwnIsCommitted
  <2>11. ListShowsItsQuery'
    BY <2>6 DEF ListShowsItsQuery
  <2> QED
    BY <2>6, <2>8, <2>9, <2>10, <2>11 DEF ListInv
<1> QED
  BY <1>8, <1>9

LEMMA OthersSaveKeeps == ASSUME ListInv, OthersSave PROVE ListInv'
<1>1. UNCHANGED <<listPage, query, effect, loads, shown, loading, failed, form, slots, saves, own>>
  BY DEF OthersSave
<1>2. PICK n \in 0..MaxPage : coll' = [edition |-> coll.edition + 1, pages |-> n]
                             /\ coll.edition < MaxEdition
  BY DEF OthersSave, Commit
<1>3. coll \in [edition : 0..MaxEdition, pages : 0..MaxPage]
  BY DEF ListInv, ListTypeOK
<1>4. /\ coll' \in [edition : 0..MaxEdition, pages : 0..MaxPage]
      /\ coll'.edition = coll.edition + 1
  BY <1>2, <1>3
<1>5. ListTypeOK'
  BY <1>1, <1>4 DEF ListInv, ListTypeOK, SlotOf
<1>6. OwnIsCommitted'
  <2>1. own \in Nat /\ own <= coll.edition
    BY DEF ListInv, ListTypeOK, OwnIsCommitted
  <2>2. ASSUME NEW s \in saves, Answered(s.answer)
        PROVE  s.answer.edition \in Nat /\ s.answer.edition <= coll.edition
    BY <2>2, AnswerFacts DEF ListInv, ListTypeOK, OwnIsCommitted
  <2> QED
    BY <1>1, <1>3, <1>4, <2>1, <2>2 DEF OwnIsCommitted
<1>7. RoomKept' /\ LastLoadIsCurrent' /\ ListShowsItsQuery'
  BY <1>1 DEF ListInv, RoomKept, LastLoadIsCurrent, ListShowsItsQuery, Asks
<1> QED
  BY <1>5, <1>6, <1>7 DEF ListInv

LEMMA ListStutter == ASSUME ListInv, UNCHANGED listVars PROVE ListInv'
<1>1. UNCHANGED <<listPage, query, effect, loads, shown, loading, failed, form, slots, saves, own, coll>>
  BY DEF listVars
<1>2. ListTypeOK'
  BY <1>1 DEF ListInv, ListTypeOK, SlotOf
<1> QED
  BY <1>1, <1>2
     DEF ListInv, RoomKept, OwnIsCommitted, LastLoadIsCurrent, ListShowsItsQuery, Asks

LEMMA ListInductive == ASSUME ListInv, [ListNext]_listVars PROVE ListInv'
<1>1. CASE ServeLoad
  BY <1>1, ServeLoadKeeps
<1>2. CASE ReceiveLoad
  BY <1>2, TakeLoadKeeps
<1>3. CASE SetFilters \/ TurnPage \/ TryAgain
  BY <1>3, ControlsKeep
<1>4. CASE UseForm
  BY <1>4, UseFormKeeps
<1>5. CASE SendSave
  BY <1>5, SendSaveKeeps
<1>6. CASE OthersSave
  BY <1>6, OthersSaveKeeps
<1>7. ASSUME NEW op \in SaveOps, ServeSave(op) PROVE ListInv'
  BY <1>7, ServeSaveKeeps
<1>8. ASSUME NEW op \in SaveOps, ReceiveSave(op) PROVE ListInv'
  BY <1>8, ReceiveSaveKeeps
<1>9. CASE UNCHANGED listVars
  BY <1>9, ListStutter
<1> QED
  BY <1>1, <1>2, <1>3, <1>4, <1>5, <1>6, <1>7, <1>8, <1>9 DEF ListNext

-----------------------------------------------------------------------------
\* Every behaviour of a list page keeps the invariant.
THEOREM ListInvariant == ListSpec => []ListInv
<1>1. ListInit => ListInv
  BY ListInitial
<1>2. ListInv /\ [ListNext]_listVars => ListInv'
  BY ListInductive
<1> QED
  BY <1>1, <1>2, PTL DEF ListSpec

\* The state of a list page is well formed, and its loads stay within the bound.
THEOREM ListTypes == ListSpec => []ListTypeOK
<1>1. ListInv => ListTypeOK
  BY DEF ListInv
<1> QED
  BY <1>1, ListInvariant, PTL

\* use-paginated-resource.ts: a page that has settled without an error shows the
\* answer to its query, read after the saves it was told it made.
THEOREM ListShows == ListSpec => []ListShowsItsQuery
<1>1. ListInv => ListShowsItsQuery
  BY DEF ListInv
<1> QED
  BY <1>1, ListInvariant, PTL
=============================================================================
