SPECIFICATION FairSpec
CONSTANTS
  k1 = k1
  k2 = k2
  k3 = k3
  MaxParallel = 2
  Slots <- MCSlots
  MaxOpens = 2
  Conns <- MCConns
  Separate = TRUE
  Faults <- MCAllFaults
INVARIANTS TypeOK LimitRespected CountersCoverOwners NoLostWakeup
PROPERTY AcceptingResumes
CHECK_DEADLOCK FALSE
