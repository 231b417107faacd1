------------------------------- MODULE Client -------------------------------
(***************************************************************************)
(* The browser's side of the CRM, one part of it at a time: a list page,   *)
(* the page of a record, the choice of a stage, the board, the inbox, the  *)
(* bell of the header beside a list that marks notifications, and the way  *)
(* of a call.  The parts share no state with one another but the backend,  *)
(* whose other users each part has already, so that interleaving two of    *)
(* them has nothing more to show; the inbox and the bell do share state,   *)
(* and the header part runs both.                                          *)
(***************************************************************************)
EXTENDS ListPages, DetailPages, StagePicker, SalesBoard, Inbox, Gateway, Studios

CONSTANT Parts  \* the parts that may run

ASSUME PartsAssumption ==
    Parts \subseteq {"list", "detail", "picker", "board", "inbox", "header", "call", "studio"}

VARIABLE part   \* the part that runs

clientVars == <<part, listVars, detailVars, pickerVars, boardVars, inboxVars, gatewayVars, studioVars>>

\* A part that does not run stays in one of its initial states.  The stages of a
\* pipeline differ in nothing but their names: its deals start in any one of them.
ClientInit ==
    /\ part \in Parts
    /\ IF part = "list" THEN ListInit
       ELSE Opened(LeadsWorkspace) /\ coll = [edition |-> 0, pages |-> 1]
    /\ IF part = "detail" THEN DetailInit ELSE Showing(LeadDetail)
    /\ PickerInit
    /\ part # "picker" => picker = "conversionPanel"
    /\ BoardInit
    /\ \A p \in BoardPipeSet : \A d \in DealsOf(p) :
          dealRow[d].stage = CHOOSE s \in ColumnsOf[p] : TRUE
    /\ InboxInit
    /\ part \notin {"inbox", "header"} => \A n \in Notices : notice[n] = "unborn"
    /\ GatewayInit
    /\ IF part = "studio" THEN StudioInit ELSE ShowStudio(AutomationWorkspace)

OnlyList == part = "list" /\ UNCHANGED <<part, detailVars, pickerVars, boardVars, inboxVars, gatewayVars, studioVars>>
OnlyDetail == part = "detail" /\ UNCHANGED <<part, listVars, pickerVars, boardVars, inboxVars, gatewayVars, studioVars>>
OnlyPicker == part = "picker" /\ UNCHANGED <<part, listVars, detailVars, boardVars, inboxVars, gatewayVars, studioVars>>
OnlyBoard == part = "board" /\ UNCHANGED <<part, listVars, detailVars, pickerVars, inboxVars, gatewayVars, studioVars>>
NotInbox == UNCHANGED <<part, listVars, detailVars, pickerVars, boardVars, gatewayVars, studioVars>>
OnlyInbox == part = "inbox" /\ NotInbox
OnlyHeader == part = "header" /\ NotInbox
InboxOrHeader == part \in {"inbox", "header"} /\ NotInbox
OnlyCall == part = "call" /\ UNCHANGED <<part, listVars, detailVars, pickerVars, boardVars, inboxVars, studioVars>>
OnlyStudio == part = "studio" /\ UNCHANGED <<part, listVars, detailVars, pickerVars, boardVars, inboxVars, gatewayVars>>

-----------------------------------------------------------------------------
ListServesLoad == OnlyList /\ ServeLoad
ListReceivesLoad == OnlyList /\ ReceiveLoad
ListSetsFilters == OnlyList /\ SetFilters
ListTurnsPage == OnlyList /\ TurnPage
ListTriesAgain == OnlyList /\ TryAgain
ListUsesForm == OnlyList /\ UseForm
ListSendsSave == OnlyList /\ SendSave
ListServesSave(op) == OnlyList /\ ServeSave(op)
ListReceivesSave(op) == OnlyList /\ ReceiveSave(op)
ListChanges == OnlyList /\ OthersSave

DetailTogglesForm == OnlyDetail /\ ToggleForm
DetailSubmits == OnlyDetail /\ Submit
DetailServesCall(op) == OnlyDetail /\ ServeCall(op)
DetailReceivesCall(op) == OnlyDetail /\ ReceiveCall(op)
DetailChanges == OnlyDetail /\ OthersEdit

PickerDealPipeline == OnlyPicker /\ DealPipeline
PickerDealStage == OnlyPicker /\ DealStage
PickerDealStages == OnlyPicker /\ DealStages
PickerPanelPipeline == OnlyPicker /\ PanelPipeline
PickerPanelStage == OnlyPicker /\ PanelStage
PickerPanelStages == OnlyPicker /\ PanelStages

BoardPipelinesArrive == OnlyBoard /\ PipelinesArrive
BoardReadsPage == OnlyBoard /\ ReadPage
BoardIsLoaded == OnlyBoard /\ BoardArrives
BoardLoadFails == OnlyBoard /\ BoardFails
BoardReloads == OnlyBoard /\ Reload
BoardMovesDeal == OnlyBoard /\ MoveDeal
BoardServesMove == OnlyBoard /\ ServeMove
BoardMoveAnswered == OnlyBoard /\ MoveAnswered
BoardOthersMove == OnlyBoard /\ OthersMove

InboxServesPage == InboxOrHeader /\ ServePage
InboxPageArrives == InboxOrHeader /\ PageArrives
InboxGoesTo == OnlyInbox /\ GoTo
InboxLoadsAgain == OnlyInbox /\ LoadAgain
InboxSelects == OnlyInbox /\ Select
InboxMarks == OnlyInbox /\ Mark
InboxServesMark == InboxOrHeader /\ ServeMark
InboxMarkAnswered == InboxOrHeader /\ MarkAnswered
InboxNoticeArrives == InboxOrHeader /\ NoticeArrives

\* The header's bell beside an inbox that is left at its first page.
HeaderMarks == OnlyHeader /\ marks = {} /\ viewRun = 1 /\ Mark
HeaderPolls == OnlyHeader /\ Poll
HeaderServesCount == OnlyHeader /\ ServeCount
HeaderShowsOrHidesTab == OnlyHeader /\ ShowOrHideTab
HeaderCountArrives(c) == OnlyHeader /\ CountArrives(c)

CallCookiesChange == OnlyCall /\ CookiesChange
CallSent == OnlyCall /\ Send
CallRouted == OnlyCall /\ Route
CallServed == OnlyCall /\ Serve
CallFetchesUser == OnlyCall /\ FetchUser
CallTold == OnlyCall /\ Tell

StudioServesFetch == OnlyStudio /\ ServeFetch
StudioFetchOver == OnlyStudio /\ FetchOver
StudioRefreshes == OnlyStudio /\ RefreshStudio
StudioSendsSave == OnlyStudio /\ SendStudioSave
StudioServesSave(op) == OnlyStudio /\ ServeStudioSave(op)
StudioSaveIsAnswered(op) == OnlyStudio /\ StudioSaveAnswered(op)
StudioChanges == OnlyStudio /\ OthersChange

-----------------------------------------------------------------------------
ClientNext ==
    \/ ListServesLoad \/ ListReceivesLoad \/ ListSetsFilters \/ ListTurnsPage
    \/ ListTriesAgain \/ ListUsesForm \/ ListSendsSave \/ ListChanges
    \/ \E op \in SaveOps : ListServesSave(op) \/ ListReceivesSave(op)
    \/ DetailTogglesForm \/ DetailSubmits \/ DetailChanges
    \/ \E op \in Ops : DetailServesCall(op) \/ DetailReceivesCall(op)
    \/ PickerDealPipeline \/ PickerDealStage \/ PickerDealStages
    \/ PickerPanelPipeline \/ PickerPanelStage \/ PickerPanelStages
    \/ BoardPipelinesArrive \/ BoardReadsPage \/ BoardIsLoaded \/ BoardLoadFails
    \/ BoardReloads \/ BoardMovesDeal \/ BoardServesMove \/ BoardMoveAnswered
    \/ BoardOthersMove
    \/ InboxServesPage \/ InboxPageArrives \/ InboxGoesTo \/ InboxLoadsAgain
    \/ InboxSelects \/ InboxMarks \/ InboxServesMark \/ InboxMarkAnswered
    \/ InboxNoticeArrives
    \/ HeaderMarks \/ HeaderPolls \/ HeaderServesCount \/ HeaderShowsOrHidesTab
    \/ \E c \in Counts : HeaderCountArrives(c)
    \/ CallCookiesChange \/ CallSent \/ CallRouted \/ CallServed
    \/ CallFetchesUser \/ CallTold
    \/ StudioServesFetch \/ StudioFetchOver \/ StudioRefreshes \/ StudioSendsSave
    \/ StudioChanges
    \/ \E op \in StudioOps : StudioServesSave(op) \/ StudioSaveIsAnswered(op)

ClientSpec == ClientInit /\ [][ClientNext]_clientVars

\* The server answers or the connection breaks, the page runs its callbacks, and
\* the bell's timer ticks while the tab is visible.
ClientFairness ==
    /\ WF_clientVars(ListServesLoad) /\ WF_clientVars(ListReceivesLoad)
    /\ \A op \in SaveOps :
          WF_clientVars(ListServesSave(op)) /\ WF_clientVars(ListReceivesSave(op))
    /\ \A op \in Ops :
          WF_clientVars(DetailServesCall(op)) /\ WF_clientVars(DetailReceivesCall(op))
    /\ WF_clientVars(BoardPipelinesArrive) /\ WF_clientVars(BoardReadsPage)
    /\ WF_clientVars(BoardIsLoaded)
    /\ WF_clientVars(HeaderPolls) /\ WF_clientVars(HeaderServesCount)
    /\ \A c \in Counts : WF_clientVars(HeaderCountArrives(c))
    /\ WF_clientVars(StudioServesFetch) /\ WF_clientVars(StudioFetchOver)
    /\ \A op \in StudioOps :
          WF_clientVars(StudioServesSave(op)) /\ WF_clientVars(StudioSaveIsAnswered(op))

FairClient == ClientSpec /\ ClientFairness

-----------------------------------------------------------------------------
ClientTypeOK ==
    /\ part \in Parts
    /\ ListTypeOK /\ DetailTypeOK /\ PickerTypeOK /\ BoardTypeOK /\ InboxTypeOK
    /\ GatewayTypeOK /\ StudioTypeOK

\* Every part that waits for the server stops waiting: a list page and its saves,
\* the requests of a record's page, the board, and the studios, whatever is refused,
\* lost or answered out of order.
PartsSettle ==
    /\ part = "list" => ListSettles
    /\ DetailSettles
    /\ part = "board" => BoardSettles
    /\ part = "studio" => StudioSettles
=============================================================================
