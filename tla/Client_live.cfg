CONSTANTS
    Parts = {"list", "detail", "board", "header", "studio"}
    Pages <- FewPages
    Rows = {"r1"}
    MaxPage = 1
    MaxEffects = 3
    MaxEdition = 1
    Details <- FewDetails
    MaxVersion = 2
    StagesOf <- ThreePipelines
    MaxPicks = 1
    BoardPipelines <- OneBoard
    PagesOf <- OneBoardPages
    ColumnsOf <- OneBoardColumns
    MaxBoardRuns = 3
    MaxMoves = 1
    MaxDealVersion = 2
    Newest <- OneNotice
    MaxInboxRuns = 3
    MaxViewLoads = 1
    MaxMarks = 1
    StudioPages <- FewStudios
    MaxStudioRuns = 3
    MaxChanges = 2
    MaxCounts = 2
SPECIFICATION FairClient
PROPERTIES
    PartsSettle
    BellCatchesUp
CHECK_DEADLOCK FALSE
