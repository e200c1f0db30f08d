SPECIFICATION FairSpec
CONSTANTS
  MaxDoc = 2
  Existing = 1
  MaxWaiting = 1
  MaxLoads = 1
  MaxFaults = 1
  DetailsFail = FALSE
  RecentRows = 1
INVARIANTS SelectionsAgree ChatIsUsable ReloadRestores
PROPERTY Settles
