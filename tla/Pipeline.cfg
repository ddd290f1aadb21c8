SPECIFICATION Spec
CONSTANTS
  Functions = {"kernel", "callee"}
  Payloads = {"p1", "p2"}
  MaxAdded = 1
  Shown = {}
INVARIANTS MachineCodeSurvives ReadsAreFresh CachedReadsHit NothingDangles
CHECK_DEADLOCK FALSE
