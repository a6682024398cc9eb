\* The license is checked again while the installer downloads.
SPECIFICATION UpdateSpec
CONSTANTS
    Releases = {1, 2}
    Running = 1
    NoRelease = NoRelease
    AutoPresent = TRUE
    HostPresents = FALSE
CHECK_DEADLOCK FALSE
INVARIANT
    DownloadIsHeard
