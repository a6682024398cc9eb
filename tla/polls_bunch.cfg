\* One request and two threads; the second poll is claimed at the instant of the first.
SPECIFICATION GateSpec
CONSTANTS
    Threads = {t1, t2}
    Requests = {q}
    Interval = 2
    MaxBackoff = 2
    Waits = {1}
    Never = Never
    MaxTime = 3
PROPERTY PollsApart
\* The clock of the model stops.
CHECK_DEADLOCK FALSE
