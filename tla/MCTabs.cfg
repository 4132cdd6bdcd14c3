SPECIFICATION Spec
CONSTANTS
    MaxTabs = 4
    MaxPins = 2
    Pinnable <- MCPinnable
    Browse = FALSE
    CanSplit = TRUE
    None = None
INVARIANTS TabsWellFormed PollingIsVisible
PROPERTIES FocusStays NothingLost
