SPECIFICATION FairSpec
CONSTANTS
    MaxRows = 2
    MaxFinished = 1
    MaxRestarts = 1
    MaxCancels = 1
    Mutating = {0}
    Fallible = {"submit"}
    None = None
PROPERTIES EveryRowSettles
