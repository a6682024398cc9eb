\* A read of the machine's identity that fails for a moment.
SPECIFICATION DevicesSpec
CONSTANTS
    Askers = {1, 2}
    Fallback = FALSE
CHECK_DEADLOCK FALSE
PROPERTY
    FailureIsRetried
