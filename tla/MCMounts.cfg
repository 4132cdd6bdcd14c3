SPECIFICATION FairSpec
CONSTANTS
    Remotes = {r1}
    MaxOps = 2
    Remounts = TRUE
    Siblings = TRUE
    Exits = TRUE
    None = None
INVARIANTS ChildrenTracked
PROPERTIES OpsEnd
