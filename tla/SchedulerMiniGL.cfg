\* The MiniGL worker beside tasks: ticks, module faults, its reset handshake.
SPECIFICATION Spec
CONSTANTS
  CAPACITY = 2
  Reqs = {r1, r2}
  Internal = {"ZZM_LOAD"}
  FaultThreshold = 2
  RingCap = 1
  MaxGen = 2
  MaxJobs = 1
  TaskFaults = TRUE
  GLFaults = TRUE
SYMMETRY ReqSymmetry
INVARIANTS
  TypeOK
  MarkerHasJob
