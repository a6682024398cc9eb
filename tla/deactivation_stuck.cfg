SPECIFICATION FairSpec
CONSTANTS
  full = full
  trial = trial
  offline = offline
  NoLicense = NoLicense
  Activations = {full}
  KindOf <- MCKinds
  Workers = 1
  HostCalls = {}
  Siblings = {"check"}
  Times = {"end"}
  MaxJobs = 2
  MaxIssued = 3
CHECK_DEADLOCK FALSE
PROPERTY EndedIsRechecked
