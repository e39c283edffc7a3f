SPECIFICATION MCSpec
CONSTANTS
  Original = {ann, bob}
  EntityType = {PERSON, EMAIL}
  StandIn = {s1, s2}
  MaxReseeds = 1
  Tenant = {a, b, c}
  Session = {e1, e2, e3}
  MaxCapacity = 3
  PerTenantCapacity = 2
  TTL = 1
  MayReload = TRUE
INVARIANTS
  MappingIsBijective
  OneWayNeverRestorable
  StoreIsSound
PROPERTIES
  ImplementsNaming
  EvictionIsJust
SYMMETRY Symmetry
