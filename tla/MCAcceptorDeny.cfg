SPECIFICATION Spec
CONSTANTS
  k1 = k1
  k2 = k2
  k3 = k3
  MaxParallel = 2
  Slots <- MCSlots
  MaxOpens = 1
  Conns <- MCConns
  Separate = TRUE
  Faults <- MCDeny
CHECK_DEADLOCK FALSE
INVARIANT ActiveAcceptsExact
