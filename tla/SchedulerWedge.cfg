\* Core 0 never waits for ever, with core 1 wedged in task or module code.
SPECIFICATION WedgeSpec
CONSTANTS
  CAPACITY = 1
  Reqs = {r1}
  Internal = {"FWUP", "ZZM_LOAD"}
  FaultThreshold = 2
  RingCap = 1
  MaxGen = 1
  MaxJobs = 2
  TaskFaults = TRUE
  GLFaults = TRUE
PROPERTY MainLoopReached
