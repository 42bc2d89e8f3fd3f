SPECIFICATION FairSpec
CONSTANTS
  MaxForks = 4
  MaxFailed = 2
INVARIANTS InBounds DeadAreListed
PROPERTIES FreesItsOwn DeadAreFreed
