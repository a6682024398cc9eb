\* A license of each kind, a host that deactivates, and siblings on the same file.
SPECIFICATION Spec
CONSTANTS
  full = full
  trial = trial
  offline = offline
  NoLicense = NoLicense
  Activations = {full, trial, offline}
  KindOf <- MCKinds
  Workers = 1
  HostCalls = {"refresh", "deactivate"}
  Siblings = {"activate", "check", "remove"}
  Times = {"end", "grace"}
  MaxJobs = 2
  MaxIssued = 2
CHECK_DEADLOCK FALSE
INVARIANTS
  Inv
  WaitsForSomething
PROPERTIES
  AnswersStayWithTheirLicense
