SPECIFICATION Spec
CONSTANTS
    MaxTabs = 3
    MaxPins = 0
    Pinnable <- MCPinnable
    Browse = TRUE
    CanSplit = TRUE
    None = None
INVARIANT MarkersOfResult
