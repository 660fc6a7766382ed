SPECIFICATION FairSpec
CONSTANTS
  a = a  b = b
  Name <- TwoNames
  Folders <- SmallFolders
  MaxAttempts = 3
  MaxPlugs = 2
  MaxFaults = 1
INVARIANTS SyncInv CacheExact
PROPERTIES EventuallyListed EventuallyCleared
