SPECIFICATION Spec
CONSTANTS
  MaxReq = 2
  IdModulus = 8
  Plans <- MCUpgradePlans
  MaxChunk = 4
  MaxRequests = 3
  MaxParts = 1
  ItemLists <- MCBufs
  MaxIov = 2
  Notificators = {FALSE}
  Faults = {}
INVARIANT UpgradeHasRequest
CHECK_DEADLOCK FALSE
