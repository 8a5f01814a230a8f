SPECIFICATION Spec
CONSTANTS
  r1 = r1
  r2 = r2
  a1 = a1
  a2 = a2
  Requests = {r1, r2}
  Apps = {a1, a2}
  Names <- TheNames
  Fields <- TheFields
  Providers <- TheProviders
  Factories <- TheFactories
  Spec0 <- TheSpec
  Scenarios <- TheScenarios
INVARIANTS CachePerRequest
CHECK_DEADLOCK FALSE
