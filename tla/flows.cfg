\* Everything comes to rest when nothing is asked for.  The overlay with the lock
\* presented, and one license with an add-on beside one without.
SPECIFICATION Spec
CONSTANTS
    online = online
    offline = offline
    Activations = {online, offline}
    Offline = {offline}
    NoLicense = NoLicense
    AutoActivate = TRUE
    MaxJobs = 2
    MaxIssued = 3
    Releases = {1, 2, 3}
    Running = 1
    NoRelease = NoRelease
    AutoPresent = TRUE
    HostPresents = TRUE
    NotANumber = NotANumber
    Unreadable = Unreadable
    MaxPart = 2
    Texts <- MCTexts
    Accesses <- MCAccesses
    Askers = {1, 2}
    Fallback = TRUE
    Plugins = {1, 2}
    Skippable = {2, 3}
    AutoPresentOnLock = TRUE
    Tokens = {plain, withAddOn}
    WithAddOn = {withAddOn}
    NoToken = NoToken
    NotListed = NotListed
    MaxDay = 2
    Links = {l1, l2}
    NoLink = NoLink
    MaxCopies = 3
    LastDay = 3
    Endless = Endless
CHECK_DEADLOCK FALSE
INVARIANTS
    AnswersAreForTheLicense
    WaitingHasAnEnd
    RulesHold
    UnlockedLawfully
    VerdictsStay
    LockIsCovered
    HostsKnow
    PanelIsTrue
    OffersHold
PROPERTIES
    AnswersInOrder
    NothingIsForgotten
    FlowsSettle
    AskedForStays
