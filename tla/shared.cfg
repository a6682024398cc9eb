\* Three stores: processes that die, on POSIX; a license in use, on Windows, where the
\* rename is tried twice; and every fault from a whole, a half or no license.  The gate
\* with two requests and an interval of two, and a bridge with an online and an offline
\* license.
SPECIFICATION MCFairSpec
CONSTANTS
    u1 = u1
    u2 = u2
    r1 = r1
    Procs <- MCProcs
    Updaters <- MCUpdaters
    NoProc = NoProc
    OpenBlocks = FALSE
    Attempts = 1
    Faults = {"crash"}
    MaxStores = 3
    t1 = t1
    t2 = t2
    q1 = q1
    q2 = q2
    Threads = {t1, t2}
    Requests = {q1, q2}
    Interval = 2
    MaxBackoff = 2
    Waits = {1, 3}
    Never = Never
    MaxTime = 3
    s1 = s1
    s2 = s2
    Seats = {s1, s2}
    OfflineSeats = {s2}
    NoCopy = NoCopy
    BridgeCalls = {"load", "clear", "destroy", "loadNow", "revokeNow"}
    MaxUnderWay = 3
    MaxCopies = 2
INVARIANTS
    WholeInv
    WindowsReadsWhole
    LastCallStands
PROPERTIES
    ImplementsAtomicFile
    StoresLand
    PollsSpaced
    PollsHeldBackRightly
    OnlyRevocationsForget
    RevokingEnds
