CONSTANTS
    Parts = {"detail"}
    Pages <- SomePages
    Rows = {"r1", "r2"}
    MaxPage = 2
    MaxEffects = 3
    MaxEdition = 1
    Details <- OnlyLeads
    MaxVersion = 3
    StagesOf <- ThreePipelines
    MaxPicks = 5
    BoardPipelines <- TwoBoards
    PagesOf <- BoardPages
    ColumnsOf <- BoardColumns
    MaxBoardRuns = 3
    MaxMoves = 2
    MaxDealVersion = 2
    Newest <- TwoNotices
    MaxInboxRuns = 3
    MaxViewLoads = 1
    MaxMarks = 2
    StudioPages <- FewStudios
    MaxStudioRuns = 3
    MaxChanges = 3
    MaxCounts = 1
SPECIFICATION ClientSpec
PROPERTY EditKeepsLinks
CHECK_DEADLOCK FALSE
