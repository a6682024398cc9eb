\* A launch and clearLicense; the throttle is off.
SPECIFICATION Spec
CONSTANTS
    i1 = i1
    i2 = i2
    worker = worker
    message = message
    sibling = sibling
    a1 = a1
    a2 = a2
    Instances <- MCInstances
    Threads <- MCThreads
    InstanceOf <- MCInstanceOf
    Activations = {a1}
    NoThread = NoThread
    Kinds = {"start", "forget"}
    Events = {}
    MinInterval = 0
    Grace = 1
    MaxCalls = 2
    MaxTime = 0
PROPERTIES
    SlowCheckNeverClobbers
\* Once MaxCalls calls have returned nothing is left to do.
CHECK_DEADLOCK FALSE
