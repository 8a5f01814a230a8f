SPECIFICATION FairSpec
CONSTANTS
  a1 = a1
  a2 = a2
  s1 = s1
  s2 = s2
  s3 = s3
  s4 = s4
  n1 = n1
  n2 = n2
  m1 = m1
  m2 = m2
  b1 = b1
  b2 = b2
  f1 = f1
  f2 = f2
  g1 = g1
  g2 = g2
  z1 = z1
  i1 = i1
  i2 = i2
  i3 = i3
  i4 = i4
  Nobody = Nobody
  Calls <- TheCalls
  Func <- TheFunc
  Args <- TheArgs
  Kwargs <- TheKwargs
  Name <- TheName
  BoundMethods = {"bound", "m1.get"}
  OfInstance = {m1, m2}
  Parent <- TheParent
  OnLoop <- TheOnLoop
  Invalidators <- TheInvalidators
  AsyncFuncs = {"fetch"}
  NoneFuncs = {"inner3"}
  Ttl <- TheTtl
  DefaultTtl = 1
  Remote = TRUE
  Scenarios <- TheScenarios
  MaxVersion = 1
  MaxTime = 2
INVARIANTS SyncFresh HitIsOwn
PROPERTIES SyncComputesOnce CallsEnd
CHECK_DEADLOCK FALSE
