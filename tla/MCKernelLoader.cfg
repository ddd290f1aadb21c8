CONSTANTS
  e1 = e1
  e2 = e2
  e3 = e3
  k1 = k1
  k2 = k2
  Threads = {t1, t2}
  Execs = {e1, e2, e3}
  KDs = {k1, k2}
  CodeOf <- MCCodeOf
  Presets = {p1}
  ManagedVars = {m1}
  HmmSupported = FALSE
  MaxVariants = 2
  MaxRefusals = 1
  None = None
SPECIFICATION FairSpec
INVARIANTS
  RecordsSound
  RunningCodeIsLoaded
PROPERTIES
  LockReleased
