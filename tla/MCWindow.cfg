SPECIFICATION WinSpec
CONSTANTS
    None = None
    Start <- MCStart
    Drives = {"x", "y"}
    Labels = {"d", "f"}
    New = "new"
    Dir = "dir"
    MaxDepth = 2
    MaxGestures = 1
    Spots <- MCSpots
    Above <- MCAbove
    RowNames = {}
    MaxHistory = 3
    Known = {1, 2}
    MaxLoads = 2
    Tasks <- MCTasks
    Content <- MCContent
    Top = ""
    Trim <- MCTrim
    Blank = ""
    Configured = {"a"}
    MaxWizards = 2
    MaxChecks = 2
    Panes = {"a", "b"}
    Kind <- MCKind
    CacheCap = 1
    MaxReads = 2
    MaxNotices = 3
    Settings = {"default", "mine"}
    Default = "default"
    Pinnable = {"p", "q"}
    MaxSaves = 4
INVARIANTS WindowTypeOK RunsWhatWasAsked StepsBelongToTheirWizard PreviewMatchesSubject StateSurvives
PROPERTIES NothingLostUnasked ChangesInAffectedDirs KeepsItsHistory HighlightFollows
CHECK_DEADLOCK FALSE
