INIT SInit
NEXT SNext
CONSTANTS
  Requests = {r1}
  Values = {v1, v2}
  Capacity = 1
  MaxRequests = 2
INVARIANTS
  RefusedValuesArePaid
CHECK_DEADLOCK FALSE
