SPECIFICATION Spec
CONSTANTS
  MaxReq = 2
  IdModulus = 4
  MaxRequests = 3
  MaxParts = 2
INVARIANTS TypeOK LookupExact FreeCellsEmpty PartsConserved NotificatorEndsGroup
PROPERTY ImplementsFifo
CHECK_DEADLOCK FALSE
