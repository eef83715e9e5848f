\* Requests and internal jobs under fairness, with task faults, a full ring and
\* the fallback.
SPECIFICATION FairSpec
CONSTANTS
  CAPACITY = 2
  Reqs = {r1, r2}
  Internal = {"FWUP"}
  FaultThreshold = 2
  RingCap = 1
  MaxGen = 1
  MaxJobs = 1
  TaskFaults = TRUE
  GLFaults = FALSE
PROPERTIES
  EventuallyAnswered
  EventuallyRetired
