SPECIFICATION PanelSpec
CONSTANTS
    MaxRows = 2
    MaxFinished = 1
    MaxRestarts = 1
    MaxCancels = 2
    Mutating = {0}
    Fallible = {"submit", "reply", "list", "status", "stop"}
    None = None
    KeptFinished = 1
    MaxTasks = 3
INVARIANTS ToldOnce NoDoubleRun SuccessRefreshes RowReportsItsOwnJob CancelledMeansStopped
PROPERTIES DoneIsFinal SparesWhatRuns
