SPECIFICATION Spec
CONSTANTS
  x1 = x1
  x2 = x2
  k1 = k1
  k2 = k2
  alice = alice
  bob = bob
  Workers = {x1, x2}
  Keys = {k1, k2}
  Members = {alice, bob}
  MaxRequests = 2
  MaxOutside = 0
  MaxFaults = 0
PROPERTIES RecheckKept
CHECK_DEADLOCK FALSE
