------------------------------- MODULE Inbox -------------------------------
(***************************************************************************)
(* The inbox (features/notifications/notifications-workspace.tsx), a page  *)
(* of usePaginatedResource whose three ways to mark notifications as read  *)
(* end by turning the page or loading it again, and the bell of the header *)
(* (components/notifications/notification-bell.tsx), which counts unread   *)
(* notifications on its own and hears of changes through a window event.   *)
(***************************************************************************)
EXTENDS Naturals, Sequences, FiniteSets

CONSTANTS
    Newest,       \* sequence of the notifications, the newest first; one a page
    MaxInboxRuns, \* bound: loads of the page
    MaxViewLoads, \* bound: loads in flight once the user starts one
    MaxMarks,     \* bound: marks in flight
    MaxCounts     \* bound: counts of the bell waiting to be served

Notices == {Newest[i] : i \in DOMAIN Newest}
ReadStates == {"all", "unread", "read"}
Unknown == {}   \* no count; a count is a set of one number
Counts == {{n} : n \in 0..Len(Newest)} \cup {Unknown}

ASSUME InboxAssumption == /\ Newest \in Seq(Notices)
                          /\ MaxInboxRuns \in Nat \ {0} /\ MaxMarks \in Nat
                          /\ MaxViewLoads \in Nat \ {0}
                          /\ MaxCounts \in Nat \ {0}

VARIABLES
    notice,     \* the notifications as stored: "unborn", "unread" or "read"
    view,       \* page and readState
    items,      \* query, unread flag of each item and total of the last answer
    viewBusy,   \* isLoading
    viewError,  \* error
    viewRun,    \* loads started: isActive belongs to the last
    viewLoads,  \* loads in flight
    selected,   \* selectedIds
    marking,    \* markingId, isMarkingBulk and isMarkingAllRead that are set
    marks,      \* requests that mark as read, in flight
    toldRead,   \* notifications an answer said are read
    turned,     \* the view changed while a mark was under way
    blind,      \* a selection was made while the list was not displayed
    bell,       \* unreadCount, or Unknown
    asked,      \* counts the bell asked for and the server has not served yet
    counted,    \* counts served and not received yet
    visible     \* document.visibilityState

inboxVars == <<notice, view, items, viewBusy, viewError, viewRun, viewLoads, selected,
               marking, marks, toldRead, turned, blind, bell, asked, counted, visible>>
pageVars == <<view, items, viewBusy, viewError, viewRun, viewLoads, selected, marking,
              marks, toldRead, turned, blind>>
bellVars == <<bell, asked, counted, visible>>

NoAnswer == [state |-> "none"]
Failed == [state |-> "failed"]

InState(n, s) ==
    CASE s = "all" -> notice[n] \in {"unread", "read"}
      [] s = "unread" -> notice[n] = "unread"
      [] OTHER -> notice[n] = "read"

UnreadCount == Cardinality({n \in Notices : notice[n] = "unread"})

\* One page of the notifications as stored now: the one that as many of those in
\* the state asked for precede as pages do.
PageNow(v) ==
    LET found == {i \in DOMAIN Newest : InState(Newest[i], v.read)}
        on == {Newest[i] : i \in {k \in found : Cardinality({j \in found : j <= k}) = v.page}}
    IN  [state |-> "served", total |-> Cardinality(found),
         unread |-> [n \in on |-> notice[n] = "unread"]]

InboxInit ==
    /\ notice \in [Notices -> {"unborn", "unread"}]
    /\ view = [page |-> 1, read |-> "all"]
    /\ items = [view |-> view, unread |-> [n \in {} |-> TRUE], total |-> 0]
    /\ viewBusy = TRUE /\ viewError = FALSE
    /\ viewRun = 1
    /\ viewLoads = {[run |-> 1, view |-> view, answer |-> NoAnswer]}
    /\ selected = {} /\ marking = {} /\ marks = {} /\ toldRead = {}
    /\ turned = FALSE /\ blind = FALSE
    /\ bell = Unknown
    /\ asked = 1 /\ counted = {}
    /\ visible = TRUE

\* The bell asks for the count when it appears, after a change on this page, every
\* minute while the tab is visible, and when it becomes visible.  Beyond the bound
\* the count that waits already stands for it.
Ring == asked' = IF asked < MaxCounts THEN asked + 1 ELSE asked

LoadView(v, pending) ==
    /\ view' = v
    /\ viewRun' = viewRun + 1
    /\ viewLoads' = viewLoads \cup {[run |-> viewRun + 1, view |-> v, answer |-> NoAnswer]}
    /\ viewBusy' = TRUE
    /\ turned' = (turned \/ (v # view /\ pending # {}))

\* Bound: every mark under way can still start the load it may end with.
\* A mark leaves room for one more, which the user may start meanwhile.
InboxRoom == viewRun + Cardinality(marks) < MaxInboxRuns /\ Cardinality(viewLoads) < MaxViewLoads
RoomToMark == viewRun + Cardinality(marks) + 1 < MaxInboxRuns

ServePage ==
    /\ \E l \in {x \in viewLoads : x.answer = NoAnswer}, ok \in BOOLEAN :
          viewLoads' = (viewLoads \ {l}) \cup
            {[l EXCEPT !.answer = IF ok THEN PageNow(l.view) ELSE Failed]}
    /\ UNCHANGED <<notice, view, items, viewBusy, viewError, viewRun, selected, marking,
                   marks, toldRead, turned, blind, bellVars>>

PageArrives ==
    /\ \E l \in {x \in viewLoads : x.answer # NoAnswer} :
          /\ viewLoads' = viewLoads \ {l}
          /\ IF l.run = viewRun
             THEN /\ viewBusy' = FALSE
                  /\ viewError' = (l.answer = Failed)
                  /\ items' = IF l.answer = Failed THEN items
                              ELSE [view |-> l.view, unread |-> l.answer.unread,
                                    total |-> l.answer.total]
             ELSE UNCHANGED <<viewBusy, viewError, items>>
    /\ UNCHANGED <<notice, view, viewRun, selected, marking, marks, toldRead, turned, blind,
                   bellVars>>

\* Mutant: the selection survives the change of page or filter.
GoToKeepingSelection ==
    /\ InboxRoom
    /\ \E v \in {[page |-> 1, read |-> r] : r \in ReadStates} \cup
               {[view EXCEPT !.page = n] :
                  n \in {k \in {items.view.page - 1, items.view.page + 1} :
                           ~viewBusy /\ ~viewError /\ k \in 1..items.total}} :
          v # view /\ LoadView(v, marks)
    /\ UNCHANGED <<notice, items, viewError, selected, marking, marks, toldRead, blind, bellVars>>

\* Another page or another filter empties the selection; a filter that stays the
\* same loads nothing but goes back to page 1.
GoTo ==
    /\ InboxRoom
    /\ \E v \in {[page |-> 1, read |-> r] : r \in ReadStates} \cup
               {[view EXCEPT !.page = n] :
                  n \in {k \in {items.view.page - 1, items.view.page + 1} :
                           ~viewBusy /\ ~viewError /\ k \in 1..items.total}} :
          v # view /\ LoadView(v, marks)
    /\ selected' = {}
    /\ UNCHANGED <<notice, items, viewError, marking, marks, toldRead, blind, bellVars>>

LoadAgain ==
    /\ InboxRoom /\ viewError /\ ~viewBusy /\ LoadView(view, marks)
    /\ UNCHANGED <<notice, items, viewError, selected, marking, marks, toldRead, blind,
                   bellVars>>

UnreadShown == {n \in DOMAIN items.unread : items.unread[n]}

\* A checkbox of the list, or "Select visible unread", which is there as soon as
\* the last answer had unread items, the list displayed or not.
Select ==
    /\ UnreadShown # {}
    /\ selected' = IF UnreadShown \subseteq selected THEN selected \ UnreadShown
                   ELSE selected \cup UnreadShown
    /\ blind' = (blind \/ viewBusy \/ viewError)
    /\ UNCHANGED <<notice, view, items, viewBusy, viewError, viewRun, viewLoads, marking,
                   marks, toldRead, turned, bellVars>>

\* Mark read of a row, Mark selected read, Mark all as read: each holds off only
\* a second press of itself.  The request remembers what was on the page.
Mark ==
    /\ RoomToMark /\ Cardinality(marks) < MaxMarks
    /\ \E k \in {"one", "selected", "all"}, ids \in SUBSET Notices :
          LET m == [kind |-> k, ids |-> ids, view |-> view, answer |-> NoAnswer,
                    shown |-> Cardinality(DOMAIN items.unread)]
          IN  /\ CASE k = "one" -> ~viewBusy /\ ~viewError /\ \E n \in UnreadShown : ids = {n}
                   [] k = "selected" -> ids = selected /\ ids # {}
                   [] OTHER -> ids = {} /\ view.read # "read" /\ items.total > 0
              /\ <<k, IF k = "one" THEN ids ELSE {}>> \notin marking
              /\ marking' = {x \in marking : x[1] # k} \cup {<<k, IF k = "one" THEN ids ELSE {}>>}
              /\ m \notin marks /\ marks' = marks \cup {m}
    /\ UNCHANGED <<notice, view, items, viewBusy, viewError, viewRun, viewLoads, selected,
                   toldRead, turned, blind, bellVars>>

\* The backend marks, or refuses; the answer may be lost.
ServeMark ==
    /\ \E m \in {x \in marks : x.answer = NoAnswer} :
          LET meant == IF m.kind = "all" THEN {n \in Notices : notice[n] = "unread"} ELSE m.ids
          IN  \/ /\ notice' = [n \in Notices |-> IF n \in meant THEN "read" ELSE notice[n]]
                 /\ \E a \in {Failed, [state |-> "marked", ids |-> meant]} :
                       marks' = (marks \ {m}) \cup {[m EXCEPT !.answer = a]}
              \/ /\ marks' = (marks \ {m}) \cup {[m EXCEPT !.answer = Failed]}
                 /\ UNCHANGED notice
    /\ UNCHANGED <<view, items, viewBusy, viewError, viewRun, viewLoads, selected, marking,
                   toldRead, turned, blind, bellVars>>

\* The page a mark goes to next, from the page it was sent from.
NextPage(m) ==
    CASE m.kind = "all" -> 1
      [] m.kind = "one" /\ m.view.read = "unread" /\ m.shown = 1 /\ m.view.page > 1 -> m.view.page - 1
      [] m.kind = "selected" /\ m.view.read = "unread" /\ Cardinality(m.ids) >= m.shown
           /\ m.view.page > 1 -> m.view.page - 1
      [] OTHER -> m.view.page

\* Mutant: a mark that stays on its page does not load it again.
RefreshByTurningOnly(m) ==
    /\ selected' = {}
    /\ Ring
    /\ IF NextPage(m) # view.page THEN LoadView([view EXCEPT !.page = NextPage(m)], marks \ {m})
       ELSE UNCHANGED <<view, viewRun, viewLoads, viewBusy, turned>>

\* refreshAfterMutation: turn to the next page if it is not the one the mark was
\* sent from (which does nothing if it is the current page by now), or reload.
Refresh(m) ==
    /\ selected' = {}
    /\ Ring
    /\ IF NextPage(m) = m.view.page THEN LoadView(view, marks \ {m})
       ELSE IF NextPage(m) # view.page THEN LoadView([view EXCEPT !.page = NextPage(m)], marks \ {m})
       ELSE UNCHANGED <<view, viewRun, viewLoads, viewBusy, turned>>

MarkAnswered ==
    /\ \E m \in {x \in marks : x.answer # NoAnswer} :
          /\ marks' = marks \ {m}
          /\ marking' = {x \in marking : x[1] # m.kind}
          /\ IF m.answer = Failed
             THEN UNCHANGED <<selected, asked, view, viewRun, viewLoads, viewBusy, turned, toldRead>>
             ELSE toldRead' = toldRead \cup m.answer.ids /\ Refresh(m)
    /\ UNCHANGED <<notice, items, viewError, blind, bell, counted, visible>>

\* A record is assigned to the user.
NoticeArrives ==
    /\ \E n \in Notices : notice[n] = "unborn" /\ notice' = [notice EXCEPT ![n] = "unread"]
    /\ UNCHANGED <<pageVars, bellVars>>

\* Mutant: the bell asks again only until it has a count.
PollUntilKnown ==
    /\ visible /\ asked < MaxCounts /\ bell = Unknown /\ Ring
    /\ UNCHANGED <<notice, pageVars, bell, counted, visible>>

Poll ==
    /\ visible /\ asked < MaxCounts /\ Ring
    /\ UNCHANGED <<notice, pageVars, bell, counted, visible>>

ServeCount ==
    /\ asked > 0 /\ asked' = asked - 1
    /\ \E c \in {{UnreadCount}, Unknown} : counted' = counted \cup {c}
    /\ UNCHANGED <<notice, pageVars, bell, visible>>

\* Counts arrive in any order, and the last to arrive stays.
CountArrives(c) ==
    /\ c \in counted
    /\ bell' = c
    /\ counted' = counted \ {c}
    /\ UNCHANGED <<notice, pageVars, asked, visible>>

ShowOrHideTab ==
    /\ visible' = ~visible
    /\ IF visible THEN UNCHANGED asked ELSE Ring
    /\ UNCHANGED <<notice, pageVars, bell, counted>>

InboxNext ==
    \/ ServePage \/ PageArrives \/ GoTo \/ LoadAgain \/ Select
    \/ Mark \/ ServeMark \/ MarkAnswered \/ NoticeArrives
    \/ Poll \/ ServeCount \/ ShowOrHideTab
    \/ \E c \in Counts : CountArrives(c)

InboxSpec == InboxInit /\ [][InboxNext]_inboxVars

InboxFairness ==
    /\ WF_inboxVars(Poll) /\ WF_inboxVars(ServeCount)
    /\ \A c \in Counts : WF_inboxVars(CountArrives(c))

-----------------------------------------------------------------------------
Views == [page : {1} \cup DOMAIN Newest, read : ReadStates]

InboxTypeOK ==
    /\ notice \in [Notices -> {"unborn", "unread", "read"}]
    /\ view \in Views /\ items.view \in Views
    /\ DOMAIN items.unread \subseteq Notices /\ items.total \in 0..Len(Newest)
    /\ {viewBusy, viewError, turned, blind, visible} \subseteq BOOLEAN
    /\ viewRun \in 1..MaxInboxRuns
    /\ \A l \in viewLoads : l.run \in 1..viewRun /\ l.view \in Views
    /\ \A m \in marks : m.ids \subseteq Notices /\ m.view \in Views
    /\ selected \subseteq Notices /\ toldRead \subseteq Notices
    /\ bell \in Counts
    /\ asked \in 0..MaxCounts /\ counted \subseteq Counts

AtRest == ~viewBusy /\ ~viewError

\* No row is shown as unread that an answer said is read, unless the page or the
\* filter changed while a mark was under way.
ShowsOwnMarks == AtRest /\ ~turned => UnreadShown \cap toldRead = {}

\* "Mark selected read" marks rows the user sees as unread, unless they were
\* selected while the list was not displayed.
SelectsWhatIsShown == AtRest /\ ~blind => selected \subseteq UnreadShown

\* Once nothing changes any more and the tab stays visible, the bell shows the
\* number of unread notifications (or nothing, when the server fails), although
\* an older count may arrive after a newer one.
BellCatchesUp == <>[]visible => <>[](bell \in {{UnreadCount}, Unknown})

\* "Your inbox has no unread notifications remaining." (the toast of Mark all as
\* read): no row is shown as unread that an answer said is read.
MarkedIsShownRead == AtRest => UnreadShown \cap toldRead = {}
=============================================================================
