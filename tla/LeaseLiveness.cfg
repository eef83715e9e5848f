SPECIFICATION FairSpec
CONSTANTS
  Depth = 6
  Tx = 4
  Budget = 1
  Burst = 4
  Word = 13
  Capacity = 2
  Preroll = 2
  Timeout = 2
  RebaseRace = FALSE
PROPERTIES DeadFreed Drains
