SPECIFICATION Spec
CONSTANTS
    None = None
    Files <- MCFiles
    Below <- MCBelow
    Hit <- MCHit
    MaxRows = 2
    MaxBurst = 2
INVARIANTS Settled RowsOfThisFolder
PROPERTIES OnlyGesturesSelect
