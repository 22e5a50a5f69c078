SPECIFICATION FairSpec
CONSTANTS
  MaxReq = 2
  IdModulus = 8
  Plans <- MCPlans
  MaxChunk = 3
  MaxRequests = 3
  MaxParts = 2
  ItemLists <- MCItemLists
  MaxIov = 2
  Notificators = {TRUE, FALSE}
  Faults <- MCAllFaults
INVARIANTS TypeOK WireInOrder NotifiedOnce OneWrite HandledOnce OpenIsGuarded ReadingResumes
PROPERTY ConnectionEnds
CHECK_DEADLOCK FALSE
