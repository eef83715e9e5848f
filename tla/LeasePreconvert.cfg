SPECIFICATION Spec
CONSTANTS
  Depth = 6
  Tx = 4
  Budget = 1
  Burst = 1
  Word = 13
  Capacity = 7
  Preroll = 2
  Timeout = 2
  RebaseRace = FALSE
INVARIANTS StagedInOrder QueueExact
