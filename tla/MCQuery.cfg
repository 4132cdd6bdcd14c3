SPECIFICATION FairSpec
CONSTANTS
    Keys = {k1, k2}
    Arrs = {name, date}
    StaleAfters = {1, None}
    MaxEntries = 1
    MaxAge = 1
    MaxVersion = 1
    None = None
INVARIANTS ShownIsCurrent SpinnerHasFetch CacheAgreesWithShown CacheIsSound
PROPERTIES NeverOlder Converges Implements
