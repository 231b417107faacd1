---------------------------- MODULE DetailPages ----------------------------
(***************************************************************************)
(* The pages of one record and their forms: features/*/*-detail.tsx.  A    *)
(* page loads its record once, replaces it by the answer of each save and  *)
(* leaves when the record is deleted.  A record is its version and those   *)
(* of its references to other records that are set; the user's own edits   *)
(* of the other fields are the new version a save makes.                   *)
(***************************************************************************)
EXTENDS Naturals, FiniteSets

CONSTANTS
    Details,    \* the pages that may be open
    MaxVersion  \* bound: versions of the record

Links == {"company_id", "contact_id", "lead_id"}

\* What a form sends of the references: those the user chooses, and those it
\* always sends as null.  It leaves out the rest, and the backend keeps them.
Form(chosen, nulls) == [chosen |-> chosen, nulls |-> nulls]

ContactForm  == Form({"company_id"}, {})
CompanyForm  == Form({}, {})
LeadForm     == Form({"company_id"}, {"contact_id"})
DealForm     == Form({"company_id"}, {"contact_id"})
TaskForm     == Form({}, {})
ActivityForm == Form({}, Links)
NoteForm     == Form(Links, {})
TagForm      == Form({}, {})
PipelineForm == Form({}, {})

\* A page: its edit form and its requests, each with the flag it holds.
Detail(editForm, more) ==
    [form |-> editForm,
     ops |-> [op \in {"update", "delete"} \cup more |->
                CASE op = "delete" -> "isDeleting"
                  [] op = "convert" -> "isSubmittingConversion"
                  [] OTHER -> "isSaving"]]

ContactDetail  == Detail(ContactForm, {})
CompanyDetail  == Detail(CompanyForm, {})
LeadDetail     == Detail(LeadForm, {"convert"})
DealDetail     == Detail(DealForm, {})
TaskDetail     == Detail(TaskForm, {})
ActivityDetail == Detail(ActivityForm, {})
NoteDetail     == Detail(NoteForm, {})
TagDetail      == Detail(TagForm, {"assign"})
PipelineDetail == Detail(PipelineForm, {"stage", "deleteStage"})

AllDetails == {ContactDetail, CompanyDetail, LeadDetail, DealDetail, TaskDetail,
               ActivityDetail, NoteDetail, TagDetail, PipelineDetail}

ASSUME DetailAssumption == Details \subseteq AllDetails /\ MaxVersion \in Nat \ {0}

VARIABLES
    detail,     \* the page that is open
    stored,     \* the record as stored; version 0 once it is deleted
    record,     \* the record as shown; version 0 before it is loaded
    problem,    \* error
    flags,      \* the flags isSaving, isDeleting, isSubmittingConversion that are set
    open,       \* the forms that are open
    calls,      \* requests in flight
    left,       \* the page moved to the list
    acked,      \* latest version a save of this page was told it made
    overlapped  \* a save was sent while another one was under way

detailVars == <<detail, stored, record, problem, flags, open, calls, left, acked,
                overlapped>>

Pending == [state |-> "pending"]
Denied == [state |-> "denied"]
Got(r) == [state |-> "got", record |-> r]
NoRecord == [version |-> 0, links |-> {}]
Loaded == record # NoRecord /\ ~left

Showing(d) ==
    /\ detail = d
    /\ stored = [version |-> 1, links |-> Links]
    /\ record = NoRecord
    /\ problem = FALSE
    /\ flags = {}
    /\ open = {}
    /\ calls = {[op |-> "load", answer |-> Pending]}
    /\ left = FALSE
    /\ acked = 0
    /\ overlapped = FALSE

DetailInit == \E d \in Details : Showing(d)

\* The buttons that open and close forms are never disabled.  Edit and Convert
\* of a lead close each other; a stage's Edit leaves the form that adds one open.
ToggleForm ==
    /\ Loaded
    /\ \E f \in {"edit"} \cup
               (IF "convert" \in DOMAIN detail.ops THEN {"convert"} ELSE {}) \cup
               (IF "stage" \in DOMAIN detail.ops THEN {"addStage", "editStage"} ELSE {}) :
          open' = CASE f \in open -> open \ {f}
                    [] f = "edit" -> (open \ {"convert"}) \cup {f}
                    [] f = "convert" -> (open \ {"edit"}) \cup {f}
                    [] f = "addStage" -> (open \ {"editStage"}) \cup {f}
                    [] OTHER -> open \cup {f}
    /\ UNCHANGED <<detail, stored, record, problem, flags, calls, left, acked, overlapped>>

\* The form a request is sent from; the others are sent by buttons.
Offered(op) ==
    CASE op = "update" -> "edit" \in open
      [] op = "convert" -> "convert" \in open
      [] op = "stage" -> open \cap {"addStage", "editStage"} # {}
      [] OTHER -> TRUE

\* Mutant: the buttons are not disabled by their flag.
SubmitAgain ==
    /\ Loaded
    /\ \E op \in DOMAIN detail.ops :
          /\ Offered(op)
          /\ flags' = flags \cup {detail.ops[op]}
          /\ calls' = calls \cup {[op |-> op, answer |-> Pending]}
          /\ overlapped' = (overlapped \/ flags \ {"isDeleting"} # {})
    /\ UNCHANGED <<detail, stored, record, problem, open, left, acked>>

\* Submit buttons, and the buttons that delete, are disabled by their flag.
Submit ==
    /\ Loaded
    /\ \E op \in DOMAIN detail.ops :
          /\ Offered(op) /\ detail.ops[op] \notin flags
          /\ flags' = flags \cup {detail.ops[op]}
          /\ calls' = calls \cup {[op |-> op, answer |-> Pending]}
          /\ overlapped' = (overlapped \/ flags \ {"isDeleting"} # {})
    /\ UNCHANGED <<detail, stored, record, problem, open, left, acked>>

\* The record a request leaves behind.
Newer(links) == [version |-> stored.version + 1, links |-> links]
Written(op) ==
    CASE op = "update" ->
            {Newer((stored.links \ (detail.form.chosen \cup detail.form.nulls)) \cup c) :
                c \in SUBSET detail.form.chosen}
      [] op = "delete" -> {NoRecord}
      [] op \in {"load", "reload", "assign"} -> {stored}
      [] OTHER -> {Newer(stored.links)}

\* The backend serves a request or refuses it; the answer may be lost.
ServeCall(op) ==
    /\ \E c \in {x \in calls : x.op = op /\ x.answer = Pending} :
          \/ /\ stored # NoRecord
             /\ \E r \in Written(op), lost \in BOOLEAN :
                   /\ r.version <= MaxVersion
                   /\ stored' = r
                   /\ calls' = (calls \ {c}) \cup
                        {[c EXCEPT !.answer = IF lost THEN Denied ELSE Got(r)]}
          \/ /\ calls' = (calls \ {c}) \cup {[c EXCEPT !.answer = Denied]}
             /\ UNCHANGED stored
    /\ UNCHANGED <<detail, record, problem, flags, open, left, acked, overlapped>>

\* What the page does with an answer.  The answer of a save of the record is
\* shown; after a stage's the pipeline is loaded again under the same flag.
Shows(c) ==
    /\ record' = IF c.answer = Denied THEN record ELSE c.answer.record
    /\ problem' = (c.answer = Denied)

Closing(op) ==
    CASE op = "update" -> {"edit"}
      [] op = "convert" -> {"convert"}
      [] op = "stage" -> {"addStage", "editStage"}
      [] OTHER -> {}

\* A save was told the version it made.
Told(c) == acked' = IF c.answer.record.version > acked THEN c.answer.record.version ELSE acked

Ends(c) == flags' = flags \ {detail.ops[c.op]}

\* Mutant: a stage's save does not wait until the pipeline is loaded again.
TakeWithoutReload(c) ==
    CASE c.op \in {"load", "reload"} -> Shows(c) /\ UNCHANGED <<flags, open, left, acked>>
      [] c.op = "assign" -> Ends(c) /\ UNCHANGED <<record, problem, open, left, acked>>
      [] c.op \notin {"load", "reload", "assign"} /\ c.answer = Denied ->
            Ends(c) /\ problem' = TRUE /\ UNCHANGED <<record, open, left, acked>>
      [] c.op = "delete" /\ c.answer # Denied ->
            left' = TRUE /\ UNCHANGED <<record, problem, flags, open, acked>>
      [] c.op \in {"stage", "deleteStage"} /\ c.answer # Denied ->
            /\ Told(c) /\ Ends(c)
            /\ open' = open \ Closing(c.op) /\ UNCHANGED <<record, problem, left>>
      [] OTHER ->
            /\ Shows(c) /\ Ends(c) /\ Told(c)
            /\ open' = open \ Closing(c.op) /\ UNCHANGED left

Take(c) ==
    CASE c.op = "load" -> Shows(c) /\ UNCHANGED <<flags, open, left, acked>>
      [] c.op = "reload" ->
            Shows(c) /\ flags' = flags \ {"isSaving"} /\ UNCHANGED <<open, left, acked>>
      [] c.op = "assign" -> Ends(c) /\ UNCHANGED <<record, problem, open, left, acked>>
      [] c.op \notin {"load", "reload", "assign"} /\ c.answer = Denied ->
            Ends(c) /\ problem' = TRUE /\ UNCHANGED <<record, open, left, acked>>
      [] c.op = "delete" /\ c.answer # Denied ->
            left' = TRUE /\ UNCHANGED <<record, problem, flags, open, acked>>
      [] c.op \in {"stage", "deleteStage"} /\ c.answer # Denied ->
            /\ Told(c)
            /\ open' = open \ Closing(c.op)
            /\ UNCHANGED <<record, problem, flags, left>>
      [] OTHER ->
            /\ Shows(c) /\ Ends(c)
            /\ Told(c)
            /\ open' = open \ Closing(c.op)
            /\ UNCHANGED left

ReceiveCall(op) ==
    /\ \E c \in {x \in calls : x.op = op /\ x.answer # Pending} :
          /\ calls' = (calls \ {c}) \cup
                {[op |-> "reload", answer |-> Pending] :
                    x \in {y \in {c} : op \in {"stage", "deleteStage"} /\ y.answer # Denied}}
          /\ IF left THEN UNCHANGED <<record, problem, flags, open, left, acked>> ELSE Take(c)
    /\ UNCHANGED <<detail, stored, overlapped>>

\* Another user edits or deletes the record.
OthersEdit ==
    /\ stored # NoRecord
    /\ \/ stored.version < MaxVersion /\ stored' = Newer(stored.links)
       \/ stored' = NoRecord
    /\ UNCHANGED <<detail, record, problem, flags, open, calls, left, acked, overlapped>>

Ops == {"load", "reload", "update", "delete", "convert", "assign", "stage", "deleteStage"}

DetailNext ==
    \/ ToggleForm \/ Submit \/ OthersEdit
    \/ \E op \in Ops : ServeCall(op) \/ ReceiveCall(op)

DetailSpec == DetailInit /\ [][DetailNext]_detailVars

DetailFairness ==
    \A op \in Ops : WF_detailVars(ServeCall(op)) /\ WF_detailVars(ReceiveCall(op))

-----------------------------------------------------------------------------
Records == [version : 0..MaxVersion, links : SUBSET Links]
Flags == {"isSaving", "isDeleting", "isSubmittingConversion"}

DetailTypeOK ==
    /\ detail \in Details
    /\ stored \in Records /\ record \in Records
    /\ problem \in BOOLEAN /\ left \in BOOLEAN /\ overlapped \in BOOLEAN
    /\ flags \subseteq Flags
    /\ open \subseteq {"edit", "convert", "addStage", "editStage"}
    /\ calls \subseteq [op : Ops, answer : {Pending, Denied} \cup [state : {"got"}, record : Records]]
    /\ acked \in 0..MaxVersion

\* Two flags let saves of a lead overlap: a conversion and an edit.
OneSaveAtATime == "convert" \notin DOMAIN detail.ops \/ ~overlapped

\* The record on the page never goes back to a version before the one shown, as
\* long as no conversion of a lead overlaps an edit of it.
ShownNeverGoesBack ==
    [][OneSaveAtATime => record'.version >= record.version]_detailVars

\* When nothing is being saved and no error is shown, the page shows every change
\* it was told it made, those of a pipeline's stages included.
ShowsOwnSaves ==
    OneSaveAtATime /\ ~problem /\ "isSaving" \notin flags => record.version >= acked

\* Every request ends: its flag is cleared or the page is left.
DetailSettles == \A f \in Flags : (f \in flags) ~> (f \notin flags \/ left)

\* "Company, contact and owner stay linked automatically." (the lead conversion
\* panel): a save leaves the references alone that its form does not offer.
EditKeepsLinks ==
    [][stored' # NoRecord => stored.links \ detail.form.chosen \subseteq stored'.links]_detailVars
=============================================================================
