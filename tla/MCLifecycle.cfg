SPECIFICATION Spec
CONSTANTS
    Pids = {p1, p2, p3, p4, p5, p6}
    Recycle = FALSE
    None = None
SYMMETRY PidSymmetry
CHECK_DEADLOCK FALSE
INVARIANTS
    OneDaemonEach
    OrphansReaped
PROPERTIES
    LiveDaemonSpared
