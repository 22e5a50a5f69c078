SPECIFICATION Spec
CONSTANTS
  MaxReq = 1
  IdModulus = 8
  Plans <- MCPlainPlans
  MaxChunk = 3
  MaxRequests = 2
  MaxParts = 1
  ItemLists <- MCBufs
  MaxIov = 2
  Notificators = {FALSE}
  Faults = {}
INVARIANT ParserResetBetweenMessages
CHECK_DEADLOCK FALSE
