------------------------------ MODULE Studios ------------------------------
(***************************************************************************)
(* The studios and boards that load several collections at once and load   *)
(* all of them again after each save: automation, developer, revenue,      *)
(* sequences, saved views, custom fields, dashboard widgets, intelligence, *)
(* the planner and the dashboard.  Most of them have no flag that tells    *)
(* the answer of the last load from an older one.  A collection is the     *)
(* edition of the data it was read at.                                     *)
(***************************************************************************)
EXTENDS Integers, FiniteSets

CONSTANTS
    StudioPages,    \* the pages that may be open
    MaxStudioRuns,  \* bound: loads started in one behaviour
    MaxChanges      \* bound: editions of the data

\* A page: the saves whose buttons share one flag, held until the page is loaded
\* again; those without a flag, whose buttons are only there while nothing is
\* loaded; how many collections it loads (more than two add nothing); whether one
\* request that fails fails the whole load, and else which collections it empties.
Studio(flagged, unflagged, collections) ==
    [flagged |-> flagged, unflagged |-> unflagged, parts |-> 1..collections,
     guarded |-> FALSE, whole |-> TRUE, emptied |-> {}, refreshes |-> "never"]

AutomationWorkspace    == Studio({"create"}, {"toggle", "remove"}, 1)
DeveloperWorkspace     == Studio({"createKey", "createWebhook"}, {"revoke", "retryDelivery"}, 2)
RevenueWorkspace       ==
    Studio({"createGoal", "createProduct", "createQuote", "approveQuote", "rejectQuote"}, {}, 2)
SequencesWorkspace     == Studio({"createSequence", "enroll"}, {"remove"}, 2)
SavedViewsWorkspace    == Studio({"create"}, {"remove"}, 1)
CustomFieldsWorkspace  == AutomationWorkspace
\* The goals it offers are left out: if they cannot be read it offers none.
DashboardCustomizationWorkspace == SavedViewsWorkspace

\* These settle each collection on its own; the last two ignore the answers of a
\* load that is not the last.  The dashboard keeps its figures if they cannot be
\* read, and loses the analytics and the health beside them.
IntelligenceWorkspace  ==
    [Studio({"pullModel"}, {}, 2) EXCEPT !.whole = FALSE, !.refreshes = "any time"]
PlannerWorkspace       ==
    [Studio({}, {"markDone"}, 2)
        EXCEPT !.guarded = TRUE, !.whole = FALSE, !.emptied = {1, 2}, !.refreshes = "loaded"]
DashboardWorkspace     ==
    [Studio({}, {}, 2)
        EXCEPT !.guarded = TRUE, !.whole = FALSE, !.emptied = {2}, !.refreshes = "loaded"]

AllStudios == {AutomationWorkspace, DeveloperWorkspace, RevenueWorkspace, SequencesWorkspace,
               SavedViewsWorkspace, CustomFieldsWorkspace, DashboardCustomizationWorkspace,
               IntelligenceWorkspace, PlannerWorkspace, DashboardWorkspace}

ASSUME StudioAssumption ==
    StudioPages \subseteq AllStudios /\ MaxStudioRuns \in Nat \ {0} /\ MaxChanges \in Nat \ {0}

VARIABLES
    studio,      \* the page that is open
    edition,     \* edition of the stored data
    display,     \* edition of each collection as shown, 0 for none
    studioBusy,  \* loading
    spoilt,      \* a request of the last load, or a planner's save, failed
    studioRun,   \* loads started: a guarded page's active belongs to the last
    fetches,     \* loads in flight, with what each request was answered
    studioSaves, \* save requests in flight
    flag,        \* saving, creating or pullingModel
    saved,       \* latest edition a save of this page was told it made
    crossed      \* the last load was started while another was in flight

studioVars == <<studio, edition, display, studioBusy, spoilt, studioRun, fetches,
                studioSaves, flag, saved, crossed>>

\* What a request of a load was answered, if not an edition.
Unread == 0
Broken == -1

\* A load after the save op, which the flag of op waits for.
Fetch(n, op) == [run |-> n, got |-> [p \in studio.parts |-> Unread], after |-> op]

ShowStudio(s) ==
    /\ studio = s
    /\ edition = 1
    /\ display = [p \in s.parts |-> 0]
    /\ studioBusy = TRUE /\ spoilt = FALSE
    /\ studioRun = 1
    /\ fetches = {Fetch(1, "none")}
    /\ studioSaves = {} /\ flag = FALSE
    /\ saved = 0 /\ crossed = FALSE

StudioInit == \E s \in StudioPages : ShowStudio(s)

StartLoad(op) ==
    /\ studioRun' = studioRun + 1
    /\ fetches' = fetches \cup {Fetch(studioRun + 1, op)}
    /\ studioBusy' = TRUE
    /\ crossed' = (fetches # {})

StudioOps == UNION {s.flagged \cup s.unflagged : s \in StudioPages}

\* Bound: every save under way can still start the load it may end with.
RoomForFetch == studioRun + Cardinality(studioSaves) < MaxStudioRuns

\* The server answers one request of a load, or it fails.
ServeFetch ==
    /\ \E f \in fetches : \E p \in {q \in studio.parts : f.got[q] = Unread} :
          \E a \in {edition, Broken} :
             fetches' = (fetches \ {f}) \cup {[f EXCEPT !.got[p] = a]}
    /\ UNCHANGED <<studio, edition, display, studioBusy, spoilt, studioRun, studioSaves, flag,
                   saved, crossed>>

Failures(f) == {p \in studio.parts : f.got[p] = Broken}
FailsWhole(f) == studio.whole /\ Failures(f) # {}
Over(f) == FailsWhole(f) \/ \A p \in studio.parts : f.got[p] # Unread

\* What a load that is over puts on the page.
Displayed(f) ==
    [p \in studio.parts |->
        CASE f.got[p] \notin {Broken, Unread} /\ ~FailsWhole(f) -> f.got[p]
          [] f.got[p] = Broken /\ p \in studio.emptied -> 0
          [] OTHER -> display[p]]

\* Mutant: the planner takes every answer.
EndFetchOfAnyRun(f) ==
    /\ fetches' = fetches \ {f}
    /\ display' = Displayed(f)
    /\ studioBusy' = FALSE
    /\ spoilt' = (Failures(f) # {})
    /\ flag' = (flag /\ f.after \notin studio.flagged)

\* Promise.all ends at the first failure and shows nothing of the rest.
EndFetch(f) ==
    /\ fetches' = fetches \ {f}
    /\ IF studio.guarded /\ f.run # studioRun
       THEN UNCHANGED <<display, studioBusy, spoilt>>
       ELSE /\ display' = Displayed(f)
            /\ studioBusy' = FALSE
            /\ spoilt' = (Failures(f) # {})
    /\ flag' = (flag /\ f.after \notin studio.flagged)

FetchOver ==
    /\ \E f \in {g \in fetches : Over(g)} : EndFetch(f)
    /\ UNCHANGED <<studio, edition, studioRun, studioSaves, saved, crossed>>

\* Refresh and Try again.
RefreshStudio ==
    /\ RoomForFetch
    /\ CASE studio.refreshes = "any time" -> TRUE
         [] studio.refreshes = "loaded" -> ~studioBusy
         [] OTHER -> FALSE
    /\ StartLoad("none")
    /\ UNCHANGED <<studio, edition, display, spoilt, studioSaves, flag, saved>>

\* Saves of something the page shows.
OnRows == {"toggle", "remove", "revoke", "retryDelivery", "markDone", "pullModel", "enroll",
           "createQuote", "approveQuote", "rejectQuote"}

\* Forms can be submitted while the page is loaded.
SendStudioSave ==
    /\ RoomForFetch
    /\ \E op \in studio.flagged \cup studio.unflagged :
          LET s == [op |-> op, answer |-> "none", edition |-> 0]
          IN  /\ op \in studio.flagged => ~flag
              /\ op \in studio.unflagged => ~studioBusy
              /\ op \in OnRows => \E p \in studio.parts : display[p] # 0
              /\ s \notin studioSaves
              /\ studioSaves' = studioSaves \cup {s}
              /\ flag' = (flag \/ op \in studio.flagged)
    /\ UNCHANGED <<studio, edition, display, studioBusy, spoilt, studioRun, fetches, saved,
                   crossed>>

\* The backend makes the change or refuses it; the answer may be lost.
ServeStudioSave(op) ==
    /\ \E s \in {t \in studioSaves : t.op = op /\ t.answer = "none"} :
          \/ /\ edition < MaxChanges /\ edition' = edition + 1
             /\ \E a \in {"made", "refused"} :
                   studioSaves' = (studioSaves \ {s}) \cup
                     {[s EXCEPT !.answer = a, !.edition = edition + 1]}
          \/ /\ studioSaves' = (studioSaves \ {s}) \cup {[s EXCEPT !.answer = "refused"]}
             /\ UNCHANGED edition
    /\ UNCHANGED <<studio, display, studioBusy, spoilt, studioRun, fetches, flag, saved, crossed>>

\* After a success the page is loaded again, and only then the flag is cleared.
StudioSaveAnswered(op) ==
    /\ \E s \in {t \in studioSaves : t.op = op /\ t.answer # "none"} :
          /\ studioSaves' = studioSaves \ {s}
          /\ IF s.answer = "refused"
             THEN /\ flag' = (flag /\ s.op \notin studio.flagged)
                  /\ spoilt' = (spoilt \/ s.op = "markDone")
                  /\ UNCHANGED <<saved, studioRun, fetches, studioBusy, crossed>>
             ELSE /\ saved' = IF s.edition > saved THEN s.edition ELSE saved
                  /\ StartLoad(s.op)
                  /\ UNCHANGED <<flag, spoilt>>
    /\ UNCHANGED <<studio, edition, display>>

\* Another user changes the data.
OthersChange ==
    /\ edition < MaxChanges /\ edition' = edition + 1
    /\ UNCHANGED <<studio, display, studioBusy, spoilt, studioRun, fetches, studioSaves, flag,
                   saved, crossed>>

StudioNext ==
    \/ ServeFetch \/ FetchOver \/ RefreshStudio \/ SendStudioSave \/ OthersChange
    \/ \E op \in StudioOps : ServeStudioSave(op) \/ StudioSaveAnswered(op)

StudioSpec == StudioInit /\ [][StudioNext]_studioVars

StudioFairness ==
    /\ WF_studioVars(ServeFetch) /\ WF_studioVars(FetchOver)
    /\ \A op \in StudioOps :
          WF_studioVars(ServeStudioSave(op)) /\ WF_studioVars(StudioSaveAnswered(op))

-----------------------------------------------------------------------------
StudioTypeOK ==
    /\ studio \in StudioPages
    /\ edition \in 1..MaxChanges /\ saved \in 0..MaxChanges
    /\ display \in [studio.parts -> 0..MaxChanges]
    /\ {studioBusy, spoilt, flag, crossed} \subseteq BOOLEAN
    /\ studioRun \in 1..MaxStudioRuns
    /\ fetches \subseteq [run : 1..MaxStudioRuns, after : studio.flagged \cup studio.unflagged \cup {"none"},
                          got : [studio.parts -> -1..MaxChanges]]
    /\ studioSaves \subseteq [op : studio.flagged \cup studio.unflagged,
                              answer : {"none", "made", "refused"}, edition : 0..MaxChanges]

\* A page that has loaded all its collections shows in each of them every change
\* it was told it made.  The pages that take the answers of any load promise it
\* only if the last load was started alone: another load repairs the rest.
StudioShowsOwnSaves ==
    ~studioBusy /\ ~spoilt /\ (studio.guarded \/ ~crossed) =>
        \A p \in studio.parts : display[p] >= saved

\* A page stops loading, and the flag of its forms is cleared.
StudioSettles == (studioBusy ~> ~studioBusy) /\ (flag ~> ~flag)
=============================================================================
