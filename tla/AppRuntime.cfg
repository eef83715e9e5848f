SPECIFICATION FairSpec
CONSTANTS
  MaxGen = 2
  MaxResets = 1
  Wakes = FALSE
  CommitLost = FALSE
INVARIANTS ArenaFollowsApp OneTeardown ClaimIsExecuted
PROPERTIES ResetClean  
