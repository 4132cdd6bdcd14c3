SPECIFICATION FairSpec
CONSTANTS
    MaxEps = 4
    MaxRestarts = 2
    None = None
INVARIANTS OneDaemon
PROPERTIES HealthConverges
