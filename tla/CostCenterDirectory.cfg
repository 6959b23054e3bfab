\* Two instances, two membership operations and two people.
SPECIFICATION Spec
CONSTANTS
  x1 = x1
  x2 = x2
  k1 = k1
  k2 = k2
  alice = alice
  bob = bob
  Workers = {x1, x2}
  Keys = {k1, k2}
  Members = {alice, bob}
  MaxRequests = 3
  MaxOutside = 1
  MaxFaults = 3
SYMMETRY Symmetry
INVARIANTS TypeOK OneGroup
 
CHECK_DEADLOCK FALSE
