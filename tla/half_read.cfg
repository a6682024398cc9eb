\* A folder that takes no new files.
SPECIFICATION Spec
CONSTANTS
    Procs = {u1, u2, r1}
    Updaters = {u1, u2}
    NoProc = NoProc
    OpenBlocks = FALSE
    Attempts = 1
    Faults = {"temp"}
    MaxStores = 2
INVARIANTS
    NeverHalfRead
