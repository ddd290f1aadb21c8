CONSTANTS
    Limit <- MCLimit
    Programs <- LoopWithCall
    KernelEntries <- LoopEntry
SPECIFICATION Spec
INVARIANT CallIsLastInItsBlock
\* The pass ends: done, failed and aborted have no step.
CHECK_DEADLOCK FALSE
