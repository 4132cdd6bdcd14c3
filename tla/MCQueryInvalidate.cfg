SPECIFICATION Spec
CONSTANTS
    Keys = {k1, k2}
    Arrs = {name}
    StaleAfters = {1}
    MaxEntries = 2
    MaxAge = 1
    MaxVersion = 1
    None = None
INVARIANTS
    InvalidatedIsRefetched
