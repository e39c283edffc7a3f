SPECIFICATION Spec
CONSTANTS
  Original = {ann, bob}
  EntityType = {person}
  StandIn = {alias}
  MaxReseeds = 0
  Request = {r1, r2}
  Adversities = {{"modes"}, {"overlap"}, {"loss"}, {"modes", "reorder", "expiry", "disconnect"}}
  MaxPending = 2
  MaxCount = 2
INVARIANTS
  EveryCopyIsSound
  CalmTokenMeansOneValue
  SessionRemembers
SYMMETRY Symmetry
VIEW Unghosted
CHECK_DEADLOCK FALSE
