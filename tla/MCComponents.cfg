\* One small instance of each component.  matchesWildcard returns, and stops.
CONSTANTS
    None = None
    Ids <- MCIds
    Values = {1, 2}
    Patterns = {"*"}
    Matching <- MCMatching
    MaxConnections = 2
    MaxCalls = 2
    MaxChanges = 1
    Forms <- MCForms
    Groups = {"g"}
    Widgets = {"a", "b", "c", "g", "x", "y"}
    FormOf <- MCFormOf
    Grids = {"g"}
    GridColumns = 2
    Start <- MCStart
    MaxMoves = 2
    PlotIds = {1, 2, 3}
    MaxFigures = 3
    MaxPlots = 2
    Chars = {"a", "b"}
    Star = "*"
    MaxValue = 5
    MaxPattern = 4
    Channels <- MCChannels
    Roots = {"r"}
    Contents = {"one", "huge", "blank"}
    Huge = {"huge"}
    Blank = "blank"
    Names <- MCNames
SPECIFICATION MCSpec
INVARIANTS AnswersAreCurrent WildcardIsWhole TypesOK
    WidgetsStay OneMoveIsSaved
    PlotsAreKnown
PROPERTIES SetsArriveFirst
    UndoRestores MatcherIsRight ImportIsAPrefix
CHECK_DEADLOCK FALSE
