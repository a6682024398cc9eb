\* Every call and every fault on two activations, two calls at a time.
SPECIFICATION Spec
CONSTANTS
    i1 = i1
    i2 = i2
    worker = worker
    message = message
    sibling = sibling
    a1 = a1
    a2 = a2
    Instances <- MCInstances
    Threads <- MCThreads
    InstanceOf <- MCInstanceOf
    Activations = {a1, a2}
    NoThread = NoThread
    Kinds = {"start", "refresh", "force", "addon", "activate", "revoke", "forget"}
    Events = {"storage", "supersede", "close", "crash", "portal"}
    MinInterval = 1
    Grace = 0
    MaxCalls = 2
    MaxTime = 1
SYMMETRY MCSymmetryBoth
PROPERTIES
    AnswersLandInOrder
    ThrottleReturnsNewest
    DiscardSparesNewer
    ImplementsRegister
    OtherLicenseStays
    ClearedStaysCleared
