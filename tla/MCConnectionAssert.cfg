SPECIFICATION Spec
CONSTANTS
  MaxReq = 1
  IdModulus = 8
  Plans <- MCPlainPlans
  MaxChunk = 4
  MaxRequests = 2
  MaxParts = 1
  ItemLists <- MCBufs
  MaxIov = 2
  Notificators = {FALSE}
  Faults = {}
INVARIANT NotClosedWhenWriting
CHECK_DEADLOCK FALSE
