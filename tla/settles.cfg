\* A controller torn down with two workers and four jobs, while server and sibling may be
\* silent for ever; one left alone with one license; and a closing instance with a
\* sibling that may hang.
SPECIFICATION SettlesSpec
CONSTANTS
  w1 = w1
  w2 = w2
  Workers = {w1, w2}
  NoJob = NoJob
  MaxJobs = 4
  Transports = {"licensing", "inventory"}
  Does <- MCDoes
  NoLicense = NoLicense
  full = full
  i1 = i1
  i2 = i2
  worker = worker
  message = message
  sibling = sibling
  NoThread = NoThread
INVARIANTS
  HoldersAreReached
  JobsHaveWorkers
  NothingRunsAfterStop
PROPERTIES
  DestructorReturns
  JobsGetTheirTurn
  LoadingEnds
  RemovalLocks
  RunOutIsSettled
  CallsReturn
\* A controller that was torn down is done, and so is an instance that closed.
CHECK_DEADLOCK FALSE
