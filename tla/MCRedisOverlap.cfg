SPECIFICATION Spec
CONSTANTS
  Original = {ann, bob}
  EntityType = {person}
  StandIn = {alias}
  MaxReseeds = 0
  Request = {r1, r2}
  Adversities = {{"overlap"}}
  MaxPending = 2
  MaxCount = 2
INVARIANT TokenMeansOneValue
SYMMETRY Symmetry
CHECK_DEADLOCK FALSE
