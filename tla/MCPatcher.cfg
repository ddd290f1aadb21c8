CONSTANTS
  SGPRs <- MCSGPRs
  Kernels <- SmallKernels
  Programs <- SmallPrograms
  Fns <- SmallFns
  BranchBits = 5
  kRelaxIterLimit = 4
SPECIFICATION PartsSpec
INVARIANTS
  LiftedAsLoaded ArgumentsInPlace ArrayIsFilled
  OutliningSound
  BranchesReach EdgesKept
