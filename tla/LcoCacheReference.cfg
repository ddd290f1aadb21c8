CONSTANTS
  Threads = {t1, t2}
  Execs = {e1, e2}
  Handles = {h1, h2, h3}
  MaxLoads = 4
  Nothing = Nothing
SPECIFICATION CacheSpec
INVARIANTS
  EntryProtected
