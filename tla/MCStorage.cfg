SPECIFICATION StoSpec
CONSTANTS
    None = None
    Settings = {"default", "mine"}
    Default = "default"
    Pinnable = {"p"}
    MaxSaves = 4
INVARIANTS UnreadableIsKept
CHECK_DEADLOCK FALSE
