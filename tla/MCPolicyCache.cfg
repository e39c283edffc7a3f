\* Two keys with room for one entry and one lock, so that each key pushes
\* the other out, and two requests or background tasks at a time.
SPECIFICATION PolicySpec
CONSTANTS
  Keys = {k1, k2}
  Slots = {s1, s2}
  MaxCache = 1
  MaxLocks = 1
  CacheTTL = 0
  FailTTL = 0
  MaxClock = 1
  MaxVersion = 2
PROPERTIES
  PoliciesAreOrdered
  
CHECK_DEADLOCK FALSE
