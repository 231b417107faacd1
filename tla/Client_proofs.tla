---------------------------- MODULE Client_proofs ----------------------------
(***************************************************************************)
(* What is proved of the parts of the client holds in the composed client: *)
(* each of its steps is a step of one part and leaves the others alone, so *)
(* that the client implements the parts that always start.                 *)
(***************************************************************************)
EXTENDS Client, ListPages_proofs, Pages_proofs

\* The parts that may be absent: the one that runs keeps its invariant, a list or
\* a studio that does not run is still loading, and so is the page of a record.
ClientInv ==
    /\ part = "list" => ListInv
    /\ part # "list" => loading
    /\ part = "detail" => DetailInv
    /\ part # "detail" => record = NoRecord /\ acked = 0
    /\ part = "studio" => StudioInv
    /\ part # "studio" => studioBusy

-----------------------------------------------------------------------------
LEMMA ClientInitial == ClientInit => ClientInv
<1> SUFFICES ASSUME ClientInit PROVE ClientInv
  OBVIOUS
<1>1. part = "list" => ListInv
  BY ListInitial DEF ClientInit
<1>2. part # "list" => loading
  <2>1. LeadsWorkspace.always = TRUE
    BY DEF LeadsWorkspace, Page
  <2> QED
    BY <2>1 DEF ClientInit, Opened
<1>3. part = "detail" => DetailInv
  BY DetailInitial DEF ClientInit
<1>4. part # "detail" => record = NoRecord /\ acked = 0
  BY DEF ClientInit, Showing
<1>5. part = "studio" => StudioInv
  BY StudioInitial DEF ClientInit
<1>6. part # "studio" => studioBusy
  BY DEF ClientInit, ShowStudio
<1> QED
  BY <1>1, <1>2, <1>3, <1>4, <1>5, <1>6 DEF ClientInv

\* A step of the client is a step of the part that runs.
LEMMA OnePartMoves ==
  ASSUME ClientNext
  PROVE  /\ UNCHANGED part
         /\ \/ OnlyList /\ ListNext
            \/ OnlyDetail /\ DetailNext
            \/ OnlyPicker /\ PickerNext
            \/ OnlyBoard /\ BoardNext
            \/ InboxOrHeader /\ InboxNext
            \/ OnlyCall /\ GatewayNext
            \/ OnlyStudio /\ StudioNext
<1>1. CASE OnlyList /\ ListNext
  BY <1>1 DEF OnlyList
<1>2. CASE OnlyDetail /\ DetailNext
  BY <1>2 DEF OnlyDetail
<1>3. CASE OnlyPicker /\ PickerNext
  BY <1>3 DEF OnlyPicker
<1>4. CASE OnlyBoard /\ BoardNext
  BY <1>4 DEF OnlyBoard
<1>5. CASE InboxOrHeader /\ InboxNext
  BY <1>5 DEF InboxOrHeader, NotInbox
<1>6. CASE OnlyCall /\ GatewayNext
  BY <1>6 DEF OnlyCall
<1>7. CASE OnlyStudio /\ StudioNext
  BY <1>7 DEF OnlyStudio
<1>8. (OnlyInbox => InboxOrHeader) /\ (OnlyHeader => InboxOrHeader)
  BY DEF OnlyInbox, OnlyHeader, InboxOrHeader
<1> QED
  BY <1>1, <1>2, <1>3, <1>4, <1>5, <1>6, <1>7, <1>8
     DEF ClientNext, ListNext, DetailNext, PickerNext, BoardNext, InboxNext, GatewayNext, StudioNext,
         ListServesLoad, ListReceivesLoad, ListSetsFilters, ListTurnsPage, ListTriesAgain,
         ListUsesForm, ListSendsSave, ListServesSave, ListReceivesSave, ListChanges,
         DetailTogglesForm, DetailSubmits, DetailServesCall, DetailReceivesCall, DetailChanges,
         PickerDealPipeline, PickerDealStage, PickerDealStages, PickerPanelPipeline,
         PickerPanelStage, PickerPanelStages,
         BoardPipelinesArrive, BoardReadsPage, BoardIsLoaded, BoardLoadFails, BoardReloads,
         BoardMovesDeal, BoardServesMove, BoardMoveAnswered, BoardOthersMove,
         InboxServesPage, InboxPageArrives, InboxGoesTo, InboxLoadsAgain, InboxSelects,
         InboxMarks, InboxServesMark, InboxMarkAnswered, InboxNoticeArrives,
         HeaderMarks, HeaderPolls, HeaderServesCount, HeaderShowsOrHidesTab, HeaderCountArrives,
         CallCookiesChange, CallSent, CallRouted, CallServed, CallFetchesUser, CallTold,
         StudioServesFetch, StudioFetchOver, StudioRefreshes, StudioSendsSave,
         StudioServesSave, StudioSaveIsAnswered, StudioChanges

\* Seen from each part, a step of the client is a step of that part or a stutter.
LEMMA EveryPartSteps ==
  ASSUME [ClientNext]_clientVars
  PROVE  /\ UNCHANGED part
         /\ [ListNext]_listVars /\ [DetailNext]_detailVars /\ [PickerNext]_pickerVars
         /\ [BoardNext]_boardVars /\ [InboxNext]_inboxVars /\ [GatewayNext]_gatewayVars
         /\ [StudioNext]_studioVars
         /\ part # "list" => UNCHANGED listVars
         /\ part # "detail" => UNCHANGED detailVars
         /\ part # "studio" => UNCHANGED studioVars
<1>1. CASE UNCHANGED clientVars
  BY <1>1 DEF clientVars
<1>2. CASE ClientNext
  BY <1>2, OnePartMoves
     DEF OnlyList, OnlyDetail, OnlyPicker, OnlyBoard, InboxOrHeader, NotInbox, OnlyCall, OnlyStudio
<1> QED
  BY <1>1, <1>2

LEMMA ClientInductive == ClientInv /\ [ClientNext]_clientVars => ClientInv'
<1> SUFFICES ASSUME ClientInv, [ClientNext]_clientVars PROVE ClientInv'
  OBVIOUS
<1>1. part = "list" => ListInv'
  BY EveryPartSteps, ListInductive DEF ClientInv
<1>2. part # "list" => loading'
  BY EveryPartSteps DEF ClientInv, listVars
<1>3. part = "detail" => DetailInv'
  BY EveryPartSteps, DetailInductive DEF ClientInv
<1>4. part # "detail" => record' = NoRecord /\ acked' = 0
  BY EveryPartSteps DEF ClientInv, detailVars
<1>5. part = "studio" => StudioInv'
  BY EveryPartSteps, StudioInductive DEF ClientInv
<1>6. part # "studio" => studioBusy'
  BY EveryPartSteps DEF ClientInv, studioVars
<1>7. UNCHANGED part
  BY EveryPartSteps
<1> QED
  BY <1>1, <1>2, <1>3, <1>4, <1>5, <1>6, <1>7 DEF ClientInv

\* Whichever part runs, the parts that may be absent keep their invariants.
THEOREM ClientInvariant == ClientSpec => []ClientInv
  BY ClientInitial, ClientInductive, PTL DEF ClientSpec

\* Every behaviour of the client is one of the choice of a stage, of the board, of
\* the inbox with the bell, and of a call: no part disturbs another.
THEOREM ClientImplementsItsParts ==
  ClientSpec => PickerSpec /\ BoardSpec /\ InboxSpec /\ GatewaySpec
<1>1. ClientInit => PickerInit /\ BoardInit /\ InboxInit /\ GatewayInit
  BY DEF ClientInit
<1>2. [ClientNext]_clientVars => [PickerNext]_pickerVars
  BY EveryPartSteps
<1>3. [ClientNext]_clientVars => [BoardNext]_boardVars
  BY EveryPartSteps
<1>4. [ClientNext]_clientVars => [InboxNext]_inboxVars
  BY EveryPartSteps
<1>5. [ClientNext]_clientVars => [GatewayNext]_gatewayVars
  BY EveryPartSteps
<1> QED
  BY <1>1, <1>2, <1>3, <1>4, <1>5, PTL DEF ClientSpec, PickerSpec, BoardSpec, InboxSpec, GatewaySpec

\* In the client as it is checked: lists show their query, studios and pages of
\* records show their own saves, deals are submitted with a stage of their pipeline.
THEOREM ClientShows ==
  ClientSpec => [](ListShowsItsQuery /\ StudioShowsOwnSaves /\ ShowsOwnSaves /\ SubmitsItsStage)
<1>1. ClientInv => ListShowsItsQuery /\ StudioShowsOwnSaves /\ ShowsOwnSaves
  <2> SUFFICES ASSUME ClientInv PROVE ListShowsItsQuery /\ StudioShowsOwnSaves /\ ShowsOwnSaves
    OBVIOUS
  <2>1. ListShowsItsQuery
    BY DEF ClientInv, ListInv, ListShowsItsQuery
  <2>2. StudioShowsOwnSaves
    BY DEF ClientInv, StudioInv, StudioShowsOwnSaves
  <2>3. ShowsOwnSaves
    BY NoRecordIs DEF ClientInv, DetailInv, ShowsOwnSaves
  <2> QED
    BY <2>1, <2>2, <2>3
<1> QED
  BY <1>1, ClientInvariant, ClientImplementsItsParts, PickerSubmits, PTL

\* In the client as it is checked: the board keeps moves that overlap nothing, and
\* the inbox shows what it marked and selects what it shows.
THEOREM ClientKeeps ==
  ClientSpec => [](BoardKeepsMoves /\ ShowsOwnMarks /\ SelectsWhatIsShown)
  BY ClientImplementsItsParts, BoardKeeps, InboxShowsOwnMarks, InboxSelectsWhatIsShown, PTL

\* In the client as it is checked, a call arrives at the endpoint it means.
THEOREM ClientCallsArrive == ClientSpec => []CallsArrive
  BY ClientImplementsItsParts, GatewayCallsArrive, PTL

\* In the client as it is checked the record on a page never goes back to a version
\* before the one shown, where one save is made at a time.
THEOREM ClientNeverGoesBack == ClientSpec => ShownNeverGoesBack
<1>1. ClientInv /\ [ClientNext]_clientVars =>
        [OneSaveAtATime => record'.version >= record.version]_detailVars
  <2> SUFFICES ASSUME ClientInv, [ClientNext]_clientVars, ~UNCHANGED detailVars, OneSaveAtATime
               PROVE  record'.version >= record.version
    OBVIOUS
  <2>1. part = "detail" /\ [DetailNext]_detailVars
    BY EveryPartSteps
  <2> QED
    BY <2>1, DetailForward DEF ClientInv
<1> QED
  BY <1>1, ClientInvariant, PTL DEF ClientSpec, ShownNeverGoesBack

\* Where the lists, the pages of records and the studios that may be open include
\* those that stand for a part that does not run, every behaviour of the client is
\* one of each of these parts too.
THEOREM ClientImplementsItsPages ==
  ASSUME LeadsWorkspace \in Pages, LeadDetail \in Details, AutomationWorkspace \in StudioPages
  PROVE  ClientSpec => ListSpec /\ DetailSpec /\ StudioSpec
<1>1. ClientInit => ListInit
  <2> SUFFICES ASSUME ClientInit, part # "list" PROVE ListInit
    BY DEF ClientInit
  <2>1. Opened(LeadsWorkspace) /\ coll = [edition |-> 0, pages |-> 1]
    BY DEF ClientInit
  <2>2. coll \in [edition : {0}, pages : {1, MaxPage}]
    BY <2>1
  <2> QED
    BY <2>1, <2>2 DEF ListInit
<1>2. ClientInit => DetailInit
  BY DEF ClientInit, DetailInit
<1>3. ClientInit => StudioInit
  BY DEF ClientInit, StudioInit
<1>4. [ClientNext]_clientVars => [ListNext]_listVars
  BY EveryPartSteps
<1>5. [ClientNext]_clientVars => [DetailNext]_detailVars
  BY EveryPartSteps
<1>6. [ClientNext]_clientVars => [StudioNext]_studioVars
  BY EveryPartSteps
<1> QED
  BY <1>1, <1>2, <1>3, <1>4, <1>5, <1>6, PTL DEF ClientSpec, ListSpec, DetailSpec, StudioSpec

\* Type correctness of the client, part by part; what TLC checks meets the
\* hypotheses.
THEOREM ClientTypes ==
  ASSUME LeadsWorkspace \in Pages, LeadDetail \in Details, AutomationWorkspace \in StudioPages
  PROVE  ClientSpec => []ClientTypeOK
<1>1. ClientInit => part \in Parts
  BY DEF ClientInit
<1>2. part \in Parts /\ [ClientNext]_clientVars => (part \in Parts)'
  BY EveryPartSteps
<1>3. ClientSpec => [](part \in Parts)
  BY <1>1, <1>2, PTL DEF ClientSpec
<1>4. part \in Parts /\ ListTypeOK /\ DetailTypeOK /\ PickerTypeOK /\ BoardTypeOK /\ InboxTypeOK
        /\ GatewayTypeOK /\ StudioTypeOK => ClientTypeOK
  BY DEF ClientTypeOK
<1> QED
  BY <1>3, <1>4, ClientImplementsItsParts, ClientImplementsItsPages, ListTypes, DetailTypes,
     PickerTypes, BoardTypes, InboxTypes, GatewayTypes, StudioTypes, PTL
=============================================================================
