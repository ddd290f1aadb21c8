CONSTANTS
  cache = cache
  loader = loader
  monitor = monitor
  destroy = destroy
  queue = queue
  Snapshots = {core, ext}
  Installers = {cache, loader, monitor}
  Functions = {destroy, queue}
  Wraps <- MCWraps
  Runtime = Runtime
  MaxStarts = 2
  None = None
  Threads = {t1, t2}
  Execs = {e1, e2}
  Handles = {h1, h2, h3}
  MaxLoads = 4
  Nothing = Nothing
SPECIFICATION PartsSpec
INVARIANTS
  TablesChained
  NoDanglingCallback
  NoStaleEntry
PROPERTIES
  LoadedThenCached
