SPECIFICATION Spec
CONSTANTS
  MaxReq = 2
  IdModulus = 8
  Plans <- MCUpgradePlans
  MaxChunk = 4
  MaxRequests = 2
  MaxParts = 1
  ItemLists <- MCBufs
  MaxIov = 2
  Notificators = {FALSE}
  Faults = {}
INVARIANT UpgradeAlone
CHECK_DEADLOCK FALSE
