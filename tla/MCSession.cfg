SPECIFICATION MCSpec
CONSTANTS
  Requests = {r1, r2}
  Values = {v1, v2}
  Capacity = 2
  MaxRequests = 3
  Replicas = {p1}
  Calls = {c1, c2}
  Burst = 2
  Amounts = {1, 2}
  Skew = {0}
  MaxTime = 2
  MaxGrants = 4
  MaxRestarts = 1
  Threshold = 3
  Turns = {t1, t2}
  MaxTurns = 4
  Proofs = {f1, f2}
  Agents = {a1, a2}
  MaxAge = 2
  ClockSkew = 1
  ReplayTTL = 4
  Size = 1
  MaxNow = 5
  Callers = {d1, d2}
  MaxTools = 2
  MaxNotices = 2
INVARIANTS
  SentValuesArePaid
  GrantsBounded
  LoopsTrip
  ConsumedOnce
  NoListFromBefore
CHECK_DEADLOCK FALSE
