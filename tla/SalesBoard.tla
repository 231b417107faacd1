----------------------------- MODULE SalesBoard -----------------------------
(***************************************************************************)
(* The board that moves the deals of a pipeline from stage to stage:       *)
(* features/sales-board/sales-board-workspace.tsx.  A move shows at once,  *)
(* is then confirmed by the answer or undone; the deals of a pipeline are  *)
(* loaded page by page, at different times.  A deal is the version and the *)
(* stage it is shown or stored at.                                         *)
(***************************************************************************)
EXTENDS Naturals, Sequences, FiniteSets

CONSTANTS
    BoardPipelines,  \* the pipelines, as the list of pipelines orders them
    PagesOf,         \* PagesOf[p]: the deals of p, a sequence of one per page
    ColumnsOf,       \* ColumnsOf[p]: the stages of p
    MaxBoardRuns,    \* bound: loads of the board
    MaxMoves,        \* bound: moves in flight
    MaxDealVersion   \* bound: versions of a deal

DealsOf(p) == {PagesOf[p][i] : i \in DOMAIN PagesOf[p]}
BoardPipeSet == {BoardPipelines[i] : i \in DOMAIN BoardPipelines}
BoardDeals == UNION {DealsOf(p) : p \in BoardPipeSet}
NotChosen == "not chosen"
NoDeals == [d \in {} |-> 0]

ASSUME BoardAssumption ==
    /\ BoardPipelines \in Seq(BoardPipeSet) /\ BoardPipelines # <<>> /\ NotChosen \notin BoardPipeSet
    /\ \A p, q \in BoardPipeSet : p # q => DealsOf(p) \cap DealsOf(q) = {}
    /\ MaxBoardRuns \in Nat \ {0, 1} /\ MaxDealVersion \in Nat \ {0}

VARIABLES
    chosen,     \* selectedPipelineId
    board,      \* pipeline and deals as shown
    boardBusy,  \* isLoading
    boardError, \* error
    boardRun,   \* runs of the effect: active belongs to the last
    boardLoads, \* loads in flight: those that read deals, page by page
    moves,      \* moves in flight
    dealRow,    \* the deals as stored
    told,       \* the version of each deal an answer to a move reported last
    disturbed   \* a move overlapped another one or a load, since the last load

boardVars == <<chosen, board, boardBusy, boardError, boardRun, boardLoads, moves,
               dealRow, told, disturbed>>

BoardInit ==
    /\ chosen = NotChosen
    /\ board = [pipeline |-> NotChosen, deals |-> NoDeals]
    /\ boardBusy = TRUE /\ boardError = FALSE
    /\ boardRun = 1
    /\ boardLoads = {[run |-> 1, pipeline |-> NotChosen, read |-> NoDeals, clean |-> TRUE]}
    /\ moves = {}
    /\ dealRow \in [BoardDeals -> [stage : UNION {ColumnsOf[p] : p \in BoardPipeSet}, version : {1}]]
    /\ \A p \in BoardPipeSet : \A d \in DealsOf(p) : dealRow[d].stage \in ColumnsOf[p]
    /\ told = [d \in BoardDeals |-> 0]
    /\ disturbed = FALSE

\* A run of the effect lists the pipelines first.
Bootstrap(done) ==
    /\ boardRun' = boardRun + 1
    /\ boardLoads' = (boardLoads \ done) \cup
         {[run |-> boardRun + 1, pipeline |-> NotChosen, read |-> NoDeals, clean |-> moves = {}]}
    /\ boardBusy' = TRUE

\* The pipelines arrive.  The first time this chooses the first of them, which
\* runs the effect again; later the run goes on to read the deals of the choice.
PipelinesArrive ==
    /\ \E l \in {x \in boardLoads : x.pipeline = NotChosen} :
          \/ /\ l.run # boardRun
             /\ boardLoads' = boardLoads \ {l}
             /\ UNCHANGED <<chosen, boardBusy, boardRun>>
          \/ /\ l.run = boardRun /\ chosen = NotChosen
             /\ chosen' = Head(BoardPipelines)
             /\ Bootstrap({l})
          \/ /\ l.run = boardRun /\ chosen # NotChosen
             /\ boardLoads' = (boardLoads \ {l}) \cup {[l EXCEPT !.pipeline = chosen]}
             /\ UNCHANGED <<chosen, boardBusy, boardRun>>
    /\ UNCHANGED <<board, boardError, moves, dealRow, told, disturbed>>

\* loadAllPipelineDeals: the next page, as it is stored now.
ReadPage ==
    /\ \E l \in {x \in boardLoads : x.pipeline # NotChosen /\ DOMAIN x.read # DealsOf(x.pipeline)} :
          \E i \in DOMAIN PagesOf[l.pipeline] :
             LET d == PagesOf[l.pipeline][i]
             IN  /\ d \notin DOMAIN l.read
                 /\ \A j \in 1..(i - 1) : PagesOf[l.pipeline][j] \in DOMAIN l.read
                 /\ boardLoads' = (boardLoads \ {l}) \cup
                      {[l EXCEPT !.read = [e \in DOMAIN l.read \cup {d} |->
                                              IF e = d THEN dealRow[d] ELSE l.read[e]]]}
    /\ UNCHANGED <<chosen, board, boardBusy, boardError, boardRun, moves, dealRow, told,
                   disturbed>>

\* The last page has arrived.
BoardArrives ==
    /\ \E l \in {x \in boardLoads : x.pipeline # NotChosen /\ DOMAIN x.read = DealsOf(x.pipeline)} :
          /\ boardLoads' = boardLoads \ {l}
          /\ IF l.run = boardRun
             THEN /\ board' = [pipeline |-> l.pipeline, deals |-> l.read]
                  /\ boardError' = FALSE /\ boardBusy' = FALSE
                  /\ disturbed' = ~l.clean
             ELSE UNCHANGED <<board, boardError, boardBusy, disturbed>>
    /\ UNCHANGED <<chosen, boardRun, moves, dealRow, told>>

\* One of the requests of a load fails: the board shown before stays.
BoardFails ==
    /\ \E l \in boardLoads :
          /\ boardLoads' = boardLoads \ {l}
          /\ IF l.run = boardRun THEN boardError' = TRUE /\ boardBusy' = FALSE
             ELSE UNCHANGED <<boardError, boardBusy>>
    /\ UNCHANGED <<chosen, board, boardRun, moves, dealRow, told, disturbed>>

\* Bound: the first load may start another one.
RoomForLoad == boardRun + (IF chosen = NotChosen THEN 1 ELSE 0) < MaxBoardRuns

\* Refresh or Try again, and the choice of another pipeline.
Reload ==
    /\ RoomForLoad /\ ~boardBusy
    /\ \/ UNCHANGED chosen
       \/ chosen # NotChosen /\ chosen' \in BoardPipeSet \ {chosen}
    /\ Bootstrap({})
    /\ disturbed' = (disturbed \/ moves # {})
    /\ UNCHANGED <<board, boardError, moves, dealRow, told>>

\* moveDeal: the deal shows in its new stage and the deals before are kept to
\* come back to; a card may be dragged while its last move is under way.
MoveDeal ==
    /\ ~boardBusy /\ board.pipeline # NotChosen
    /\ \E d \in DOMAIN board.deals, s \in ColumnsOf[board.pipeline] :
          LET m == [deal |-> d, stage |-> s, previous |-> board.deals, answer |-> "none", version |-> 0]
          IN  /\ Cardinality(moves) < MaxMoves
              /\ board.deals[d].stage \in ColumnsOf[board.pipeline] \ {s}
              /\ m \notin moves
              /\ moves' = moves \cup {m}
              /\ board' = [board EXCEPT !.deals[d].stage = s]
    /\ boardError' = FALSE
    /\ disturbed' = (disturbed \/ moves # {})
    /\ UNCHANGED <<chosen, boardBusy, boardRun, boardLoads, dealRow, told>>

Moved(d, s) == dealRow' = [dealRow EXCEPT ![d] = [stage |-> s, version |-> @.version + 1]]

\* The backend moves the deal or refuses; the answer may be lost.
ServeMove ==
    /\ \E m \in {x \in moves : x.answer = "none"} :
          \/ /\ dealRow[m.deal].version < MaxDealVersion
             /\ Moved(m.deal, m.stage)
             /\ \E a \in {"moved", "failed"} :
                   moves' = (moves \ {m}) \cup
                     {[m EXCEPT !.answer = a, !.version = dealRow[m.deal].version + 1]}
          \/ /\ moves' = (moves \ {m}) \cup {[m EXCEPT !.answer = "failed"]}
             /\ UNCHANGED dealRow
    /\ UNCHANGED <<chosen, board, boardBusy, boardError, boardRun, boardLoads, told, disturbed>>

\* Mutant: a failed move stays where it was dropped.
MoveNotUndone ==
    /\ \E m \in {x \in moves : x.answer # "none"} :
          /\ moves' = moves \ {m}
          /\ boardError' = (m.answer = "failed")
          /\ IF m.answer = "failed" \/ m.deal \notin DOMAIN board.deals THEN UNCHANGED board
             ELSE board' = [board EXCEPT !.deals[m.deal] =
                               [stage |-> m.stage, version |-> m.version]]
    /\ UNCHANGED <<chosen, boardBusy, boardRun, boardLoads, dealRow, told, disturbed>>

\* The answer replaces the deal; a failure brings back all the deals of before.
MoveAnswered ==
    /\ \E m \in {x \in moves : x.answer # "none"} :
          /\ moves' = moves \ {m}
          /\ IF m.answer = "failed"
             THEN /\ board' = [board EXCEPT !.deals = m.previous]
                  /\ boardError' = TRUE
                  /\ UNCHANGED told
             ELSE /\ board' = IF m.deal \in DOMAIN board.deals
                              THEN [board EXCEPT !.deals[m.deal] =
                                       [stage |-> m.stage, version |-> m.version]]
                              ELSE board
                  /\ told' = [told EXCEPT ![m.deal] = IF m.version > @ THEN m.version ELSE @]
                  /\ UNCHANGED boardError
    /\ UNCHANGED <<chosen, boardBusy, boardRun, boardLoads, dealRow, disturbed>>

OthersMove ==
    /\ \E p \in BoardPipeSet : \E d \in DealsOf(p), s \in ColumnsOf[p] :
          dealRow[d].version < MaxDealVersion /\ s # dealRow[d].stage /\ Moved(d, s)
    /\ UNCHANGED <<chosen, board, boardBusy, boardError, boardRun, boardLoads, moves, told,
                   disturbed>>

BoardNext ==
    \/ PipelinesArrive \/ ReadPage \/ BoardArrives \/ BoardFails \/ Reload
    \/ MoveDeal \/ ServeMove \/ MoveAnswered \/ OthersMove

BoardSpec == BoardInit /\ [][BoardNext]_boardVars

BoardFairness ==
    /\ WF_boardVars(PipelinesArrive) /\ WF_boardVars(ReadPage) /\ WF_boardVars(BoardArrives)
    /\ WF_boardVars(ServeMove) /\ WF_boardVars(MoveAnswered)

-----------------------------------------------------------------------------
DealStates == [stage : UNION {ColumnsOf[p] : p \in BoardPipeSet}, version : 1..MaxDealVersion]
DealMaps == {NoDeals} \cup UNION {[D -> DealStates] : D \in {DealsOf(p) : p \in BoardPipeSet}}

BoardTypeOK ==
    /\ chosen \in BoardPipeSet \cup {NotChosen}
    /\ board.pipeline \in BoardPipeSet \cup {NotChosen} /\ board.deals \in DealMaps
    /\ {boardBusy, boardError, disturbed} \subseteq BOOLEAN
    /\ boardRun \in 1..MaxBoardRuns
    /\ \A l \in boardLoads : /\ l.run \in 1..boardRun
                             /\ l.pipeline \in BoardPipeSet \cup {NotChosen}
                             /\ DOMAIN l.read \subseteq BoardDeals
    /\ \A m \in moves : m.deal \in BoardDeals /\ m.previous \in DealMaps
    /\ dealRow \in [BoardDeals -> DealStates]
    /\ told \in [BoardDeals -> 0..MaxDealVersion]

\* When the board is at rest it shows the deals of its pipeline, each at least as
\* new as the answers to its moves reported, whatever was undone in between: as
\* long as no move overlapped another one or a load.  A load at rest repairs it.
BoardKeepsMoves ==
    ~boardBusy /\ moves = {} /\ ~disturbed /\ board.pipeline # NotChosen =>
        /\ DOMAIN board.deals = DealsOf(board.pipeline)
        /\ \A d \in DOMAIN board.deals :
              /\ board.deals[d].version >= told[d]
              /\ board.deals[d].version = dealRow[d].version => board.deals[d] = dealRow[d]

\* The board stops loading, whatever fails and in whatever order answers come.
BoardSettles == boardBusy ~> ~boardBusy
=============================================================================
