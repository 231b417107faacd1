CONSTANTS
    Parts = {"list", "detail", "picker", "board", "inbox", "header", "call", "studio"}
    Pages <- SomePages
    Rows = {"r1", "r2"}
    MaxPage = 2
    MaxEffects = 3
    MaxEdition = 1
    Details <- AllDetails
    MaxVersion = 3
    StagesOf <- ThreePipelines
    MaxPicks = 5
    BoardPipelines <- TwoBoards
    PagesOf <- BoardPages
    ColumnsOf <- BoardColumns
    MaxBoardRuns = 3
    MaxMoves = 2
    MaxDealVersion = 2
    Newest <- TwoNotices
    MaxInboxRuns = 4
    MaxViewLoads = 1
    MaxMarks = 2
    StudioPages <- SomeStudios
    MaxStudioRuns = 3
    MaxChanges = 3
    MaxCounts = 1
SPECIFICATION ClientSpec
INVARIANTS
    ClientTypeOK
    ListShowsItsQuery
    ShowsOwnSaves
    SubmitsItsStage
    BoardKeepsMoves
    ShowsOwnMarks
    SelectsWhatIsShown
    CallsArrive
    StudioShowsOwnSaves
PROPERTIES
    ShownNeverGoesBack
CHECK_DEADLOCK FALSE
