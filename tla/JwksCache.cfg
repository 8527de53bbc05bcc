SPECIFICATION MCSpec
CONSTANTS
  Conns = {c1, c2}
  k1 = k1
  k2 = k2
  k3 = k3
  Keys = {k1, k2, k3}
  KidOf <- Kids
  Ttl = 2
  Timeout = 1
  None = none
 
PROPERTIES
  KeysWithinWindow
  Answered
