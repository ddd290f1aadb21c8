CONSTANTS
  Threads = {t1, t2, t3}
  Instances = {o1, o2}
  MaxDepth = 2
  NDEBUG = FALSE
  None = None
SPECIFICATION FairSpec
INVARIANTS
  RefCountExact
  NoUseAfterDestroy
PROPERTIES
  DrainTerminates
  ImplementsLifetime
