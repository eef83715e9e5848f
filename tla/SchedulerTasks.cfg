\* Client tasks and a firmware-update job, task faults, watchdog, two Amiga resets.
SPECIFICATION Spec
CONSTANTS
  CAPACITY = 2
  Reqs = {r1, r2}
  Internal = {"FWUP"}
  FaultThreshold = 2
  RingCap = 1
  MaxGen = 2
  MaxJobs = 1
  TaskFaults = TRUE
  GLFaults = FALSE
SYMMETRY ReqSymmetry
PROPERTY MailboxPromise
INVARIANTS
  ClaimHasOneOwner
  NoLateWrite
  PendingIsQueued
  NothingStranded
  TakeBackClean
  StorageHasOneOwner
